---------------------------- MODULE Spec2Model ----------------------------
(***************************************************************************)
(* A model of pgmetrics' human-readable report renderer                    *)
(* (cmd/pgmetrics/report.go): the derivation helpers (lsn2int, lsnDiff,    *)
(* fmtLag, the time formatters), the bordered table writer and the report  *)
(* assembler writeHumanTo with its section renderers.                      *)
(*                                                                         *)
(* Representation of Go values                                             *)
(*   string   a sequence of pieces; a piece is a run of ASCII characters   *)
(*            (a TLA+ string, one byte and one rune per character) or the  *)
(*            single piece "U+00E9", one rune that UTF-8 encodes in two    *)
(*            bytes.  Strings that the code inspects character by          *)
(*            character are kept with one character per piece.             *)
(*   uint64 / int64                                                        *)
(*            a sequence of 16 hexadecimal digits (0..15), most            *)
(*            significant first: the 64-bit pattern itself, so that shifts,*)
(*            wrap-around and the signed/unsigned reinterpretations are    *)
(*            those of the machine word.                                   *)
(***************************************************************************)
EXTENDS Integers, Sequences, FiniteSets, TLC

VARIABLES
    \* ---- writeHumanTo and its caller
    result,     \* the *pgmetrics.Model handed to writeHumanTo
    before,     \* the value of result when the current invocation began
    pc,         \* position inside writeHumanTo ("idle" between invocations)
    out,        \* what the sink accepted during the current invocation
    now,        \* time.Now() (epoch seconds) during the current invocation
    sinkCap,    \* writes the sink still accepts; -1: it never fails
    sinkErr,    \* the first fault the sink returned, "none" so far
    lateWrites, \* writes attempted after the sink's first fault
    status,     \* what the last invocation returned to its caller
    run,        \* invocations completed
    prevOut,    \* what the sink accepted during the previous invocation
    arch,       \* the processor the program was built for
    \* ---- one tableWriter instance
    twData,     \* tableWriter.data
    twLines,    \* the lines of the last write(), <<>> before
    twPfx,      \* the prefix of the last write()
    twPc,       \* "open": rows may be added; "written"
    \* ---- the derivation helpers called on their own
    lsnA, lsnB, \* arguments
    lsnPc,      \* "args" or the name of the function that was applied
    lsnRes      \* its result

renderVars == <<result, before, pc, out, now, arch, sinkCap, sinkErr, lateWrites,
                status, run, prevOut>>
tableVars  == <<twData, twLines, twPfx, twPc>>
lsnVars    == <<lsnA, lsnB, lsnPc, lsnRes>>
vars       == <<renderVars, tableVars, lsnVars>>

-----------------------------------------------------------------------------
(* Go strings *)

\* A non-ASCII rune that data may hold: U+00E9, two bytes in UTF-8.
MultiByte == "U+00E9"

\* The micro sign of time.Duration's String(): U+00B5, two bytes in UTF-8.
MicroSign == "U+00B5"

\* The rune U+FFFD, which strings.Map writes for a byte that is not part of
\* a valid UTF-8 sequence; it encodes in three bytes.
RuneError == "U+FFFD"

\* Bytes of one piece.
PieceBytes(p) ==
    IF p \in {MultiByte, MicroSign} THEN 2
    ELSE IF p = RuneError THEN 3
    ELSE Len(p)

\* Runes of one piece.
PieceRunes(p) == IF p \in {MultiByte, MicroSign, RuneError} THEN 1 ELSE Len(p)

RECURSIVE GoLen(_)
\* len(s): the number of bytes of s.
GoLen(s) == IF s = <<>> THEN 0 ELSE PieceBytes(Head(s)) + GoLen(Tail(s))

RECURSIVE RuneCount(_)
\* utf8.RuneCountInString(s), which fmt uses to pad to a width.
RuneCount(s) == IF s = <<>> THEN 0 ELSE PieceRunes(Head(s)) + RuneCount(Tail(s))

\* strings.Repeat(c, n) for a one-character c.
Repeat(c, n) == [i \in 1..n |-> c]

\* fmt's "%*s": s right-aligned in a field of w runes; never truncated.
PadLeft(s, w) == IF RuneCount(s) >= w THEN s ELSE Repeat(" ", w - RuneCount(s)) \o s

RECURSIVE Digits(_)
\* The decimal digits of n >= 0, one character per piece.
Digits(n) ==
    LET d == <<"0", "1", "2", "3", "4", "5", "6", "7", "8", "9">>[(n % 10) + 1]
    IN  IF n < 10 THEN <<d>> ELSE Digits(n \div 10) \o <<d>>

\* strconv.Itoa(n), and fmt's %d and %v of an integer.
Itoa(n) == IF n < 0 THEN <<"-">> \o Digits(-n) ELSE Digits(n)

-----------------------------------------------------------------------------
(* 64-bit words *)

WordDigits == 16    \* 64 bits, 4 per hexadecimal digit
ShiftDigits == 8    \* the 32 of "<<32"

Zero64 == [i \in 1..WordDigits |-> 0]
MinusOne64 == [i \in 1..WordDigits |-> 15]      \* int64(-1)

\* The value of a hexadecimal digit character, -1 for any other character.
HexValue(c) ==
    CASE c = "0" -> 0   [] c = "1" -> 1   [] c = "2" -> 2   [] c = "3" -> 3
      [] c = "4" -> 4   [] c = "5" -> 5   [] c = "6" -> 6   [] c = "7" -> 7
      [] c = "8" -> 8   [] c = "9" -> 9
      [] c \in {"a", "A"} -> 10   [] c \in {"b", "B"} -> 11
      [] c \in {"c", "C"} -> 12   [] c \in {"d", "D"} -> 13
      [] c \in {"e", "E"} -> 14   [] c \in {"f", "F"} -> 15
      [] OTHER -> -1

RECURSIVE StripZeros(_)
StripZeros(ds) == IF ds # <<>> /\ Head(ds) = 0 THEN StripZeros(Tail(ds)) ELSE ds

\* strconv.ParseUint(s, 16, 64) on a string of one-character pieces:
\* a syntax error for the empty string and for any character that is no
\* hexadecimal digit, a range error for a value of more than 64 bits.
ParseUintHex(s) ==
    LET ds  == [i \in 1..Len(s) |-> HexValue(s[i])]
        sig == StripZeros(ds)
    IN  IF s = <<>> \/ \E i \in 1..Len(s) : ds[i] = -1
          THEN [err |-> "syntax", val |-> Zero64]
        ELSE IF Len(sig) > WordDigits
          THEN [err |-> "range", val |-> MinusOne64]
        ELSE [err |-> "nil",
              val |-> [i \in 1..(WordDigits - Len(sig)) |-> 0] \o sig]

\* v << 32 on a uint64: the high 32 bits fall off.
Shl32(v) == SubSeq(v, ShiftDigits + 1, WordDigits) \o [i \in 1..ShiftDigits |-> 0]

\* x | y on two hexadecimal digits.
DigitOr(x, y) ==
    LET bit(n, k) == (n \div k) % 2
        either(k) == IF bit(x, k) = 1 \/ bit(y, k) = 1 THEN k ELSE 0
    IN  either(8) + either(4) + either(2) + either(1)

\* a | b on uint64.
Or64(a, b) == [i \in 1..WordDigits |-> DigitOr(a[i], b[i])]

RECURSIVE Borrow(_, _, _)
\* The borrow into digit i (from the less significant digits) of a - b.
Borrow(a, b, i) ==
    IF i > WordDigits THEN 0
    ELSE IF a[i] - b[i] - Borrow(a, b, i + 1) < 0 THEN 1 ELSE 0

\* a - b on int64 (and uint64): modulo 2^64.
Sub64(a, b) ==
    [i \in 1..WordDigits |-> (a[i] - b[i] - Borrow(a, b, i + 1) + 16) % 16]

\* The sign of the word read as int64.
IsNegative64(w) == w[1] >= 8
IsPositive64(w) == ~IsNegative64(w) /\ w # Zero64

-----------------------------------------------------------------------------
(* Numbers and their display *)

RECURSIVE HexDigitsOf(_, _)
\* The k least significant hexadecimal digits of n >= 0.
HexDigitsOf(n, k) ==
    IF k = 0 THEN <<>> ELSE HexDigitsOf(n \div 16, k - 1) \o <<n % 16>>

\* uint64(n) / int64(n) of a (small) integer of the snapshot: its 64-bit
\* pattern, two's complement for a negative n.
ToWord(n) ==
    IF n >= 0 THEN HexDigitsOf(n, WordDigits)
    ELSE Sub64(Zero64, HexDigitsOf(-n, WordDigits))

\* Bit j of a word, j = 63 the most significant.
BitOf(w, j) == (w[WordDigits - (j \div 4)] \div (2 ^ (j % 4))) % 2

\* The number of bits needed for the unsigned value of w (0 for 0).
BitLen(w) ==
    IF w = Zero64 THEN 0
    ELSE 1 + CHOOSE j \in 0..63 :
                BitOf(w, j) = 1 /\ \A k \in (j + 1)..63 : BitOf(w, k) = 0

RECURSIVE BitsValue(_, _, _)
\* The value of bits lo..hi of w (at most 20 of them).
BitsValue(w, hi, lo) ==
    IF hi < lo THEN 0
    ELSE BitOf(w, lo) + 2 * BitsValue(w, hi, lo + 1)

IBytesSuffix == <<" B", " KiB", " MiB", " GiB", " TiB", " PiB", " EiB">>

\* humanize.IBytes(u) of the go-humanize library, which is outside the
\* repository: "<n> B" below 10, else the value scaled by 1024^e with one
\* decimal below 10 and none from 10 on.  The scaled value is taken to the
\* ten bits below the unit.
IBytes(u) ==
    LET n  == BitLen(u)
        e  == IF n = 0 THEN 0 ELSE (n - 1) \div 10
        hi == IF 10 * e + 9 > 63 THEN 63 ELSE 10 * e + 9
        I  == BitsValue(u, hi, 10 * e)
        F  == IF e = 0 THEN 0 ELSE BitsValue(u, 10 * e - 1, 10 * e - 10)
        tenths == (I * 10240 + F * 10 + 512) \div 1024
        q  == tenths \div 10
        r  == tenths % 10
        whole == IF r > 5 \/ (r = 5 /\ q % 2 = 1) THEN q + 1 ELSE q
    IN  IF e = 0 /\ I < 10 THEN Digits(I) \o <<" B">>
        ELSE IF tenths < 100
               THEN Digits(q) \o <<".">> \o Digits(r) \o <<IBytesSuffix[e + 1]>>
               ELSE Digits(whole) \o <<IBytesSuffix[e + 1]>>

\* The digit value of a decimal digit character, -1 for any other.
DecValue(c) == IF HexValue(c) \in 0..9 THEN HexValue(c) ELSE -1

RECURSIVE DecNumber(_)
\* The number a string of decimal digits denotes (at most 9 digits here).
DecNumber(s) ==
    IF s = <<>> THEN 0 ELSE 10 * DecNumber(SubSeq(s, 1, Len(s) - 1)) + DecValue(s[Len(s)])

AllDecimal(s) == s # <<>> /\ \A i \in 1..Len(s) : DecValue(s[i]) >= 0

\* strconv.Atoi(s) on a string of one-character pieces: an optional sign,
\* then decimal digits; anything else is an error.
Atoi(s) ==
    LET signed == s # <<>> /\ s[1] \in {"+", "-"}
        body   == IF signed THEN Tail(s) ELSE s
    IN  IF AllDecimal(body)
          THEN [err |-> FALSE,
                val |-> IF signed /\ s[1] = "-" THEN -DecNumber(body) ELSE DecNumber(body)]
          ELSE [err |-> TRUE, val |-> 0]

\* strconv.ParseUint(s, 10, 64): decimal digits only, no sign.
ParseUintDec(s) ==
    IF AllDecimal(s) THEN [err |-> FALSE, val |-> DecNumber(s)]
    ELSE [err |-> TRUE, val |-> 0]

\* A float64 quotient a/b with b # 0, kept exact as numerator and
\* denominator.
Quot(a, b) == [num |-> a, den |-> b]

\* safeDiv: 0 when b == 0, else a/b.
safeDiv(a, b) == IF b = 0 THEN Quot(0, 1) ELSE Quot(a, b)

\* fmt's "%.1f" of the quotient a/b of two whole numbers, b # 0: one
\* decimal, with the sign of the float64 quotient (a zero over a negative
\* number is the negative zero, shown as "-0.0").
Fixed1(a, b) ==
    LET neg    == (a < 0 /\ b > 0) \/ (a >= 0 /\ b < 0)
        aa     == IF a < 0 THEN -a ELSE a
        bb     == IF b < 0 THEN -b ELSE b
        tenths == (20 * aa + bb) \div (2 * bb)
    IN  (IF neg THEN <<"-">> ELSE <<>>)
        \o Digits(tenths \div 10) \o <<".">> \o Digits(tenths % 10)

\* fmtPct: "" when b == 0, else "%.1f%%" of 100*a/b.
fmtPct(a, b) == IF b = 0 THEN <<>> ELSE Fixed1(100 * a, b) \o <<"%">>

-----------------------------------------------------------------------------
(* Derivation helpers *)

\* strings.IndexByte(s, '/') + 1 on a string of one-character pieces:
\* the position of the first '/', 0 when there is none.
IndexSlash(s) ==
    IF \E i \in 1..Len(s) : s[i] = "/"
      THEN CHOOSE i \in 1..Len(s) : s[i] = "/" /\ \A j \in 1..(i - 1) : s[j] # "/"
      ELSE 0

\* lsn2int: the int64 the code returns, as its 64-bit pattern.  -1 (all
\* bits set) is the code's "cannot parse".
lsn2int(s) ==
    IF Len(s) = 0 THEN MinusOne64
    ELSE LET pos == IndexSlash(s)
         IN  IF pos > 0
               THEN LET p1 == ParseUintHex(SubSeq(s, 1, pos - 1))
                        p2 == ParseUintHex(SubSeq(s, pos + 1, Len(s)))
                    IN  IF p1.err # "nil" \/ p2.err # "nil"
                          THEN MinusOne64
                          ELSE Or64(Shl32(p1.val), p2.val)
               ELSE MinusOne64

\* lsnDiff: (va - vb, true), or (-1, false) when either is -1.
lsnDiff(a, b) ==
    LET va == lsn2int(a)
        vb == lsn2int(b)
    IN  IF va = MinusOne64 \/ vb = MinusOne64
          THEN [d |-> MinusOne64, ok |-> FALSE]
          ELSE [d |-> Sub64(va, vb), ok |-> TRUE]

\* strings.HasSuffix(s, " ").
HasSuffixSpace(s) ==
    /\ s # <<>>
    /\ LET p == s[Len(s)]
       IN  p \notin {MultiByte, MicroSign} /\ SubSeq(p, Len(p), Len(p)) = " "

\* fmtLag: "" (kind "none"), " (no <qual>lag)" or " (<qual>lag = <figure>)".
\* uint64(d) reinterprets the bits of d.
fmtLag(a, b, qual) ==
    LET q  == IF GoLen(qual) > 0 /\ ~HasSuffixSpace(qual) THEN qual \o <<" ">> ELSE qual
        df == lsnDiff(a, b)
    IN  IF df.ok
          THEN IF df.d = Zero64
                 THEN [kind |-> "nolag", qual |-> q]
                 ELSE [kind |-> "lag", qual |-> q, figure |-> IBytes(df.d)]
          ELSE [kind |-> "none"]

-----------------------------------------------------------------------------
(* tableWriter *)

\* The arguments of a variadic ...interface{} call: a string or an int.
StrArg(s) == [kind |-> "string", str |-> s, int |-> 0]
IntArg(n) == [kind |-> "int", str |-> <<>>, int |-> n]

\* fmt.Sprintf("%v", c): a string as it is, an integer in decimal.
SprintV(c) == IF c.kind = "int" THEN Itoa(c.int) ELSE c.str

\* tableWriter.add: one row, each argument formatted with %v.
add(data, cols) == Append(data, [i \in 1..Len(cols) |-> SprintV(cols[i])])

\* tableWriter.cols: the length of the longest row.
cols(data) ==
    IF data = <<>> THEN 0
    ELSE CHOOSE n \in {Len(data[i]) : i \in 1..Len(data)} :
            \A i \in 1..Len(data) : Len(data[i]) <= n

RECURSIVE Concat(_)
\* The concatenation of a sequence of strings (successive Fprint calls).
Concat(ss) == IF ss = <<>> THEN <<>> ELSE Head(ss) \o Concat(Tail(ss))

\* writeWidths with the widths taken from the header row alone.
writeWidths_headerOnly(data) ==
    [c \in 1..cols(data) |-> IF Len(data[1]) >= c THEN GoLen(data[1][c]) ELSE 0]

\* The widths write() computes: per column, the longest len(cell) among
\* the rows that have that column.
writeWidths(data) ==
    [c \in 1..cols(data) |->
        LET ls == {GoLen(data[i][c]) : i \in {j \in 1..Len(data) : Len(data[j]) >= c}}
        IN  CHOOSE w \in ls \cup {0} : \A x \in ls : x <= w]

\* The closure line() of write(): one border line.
writeLine(widths, pfx) ==
    pfx \o <<"+">> \o
    Concat([c \in 1..Len(widths) |-> Repeat("-", widths[c] + 2) \o <<"+">>])

\* One row as write() prints it: the row's own cells, each " %*s |".
writeRow(row, widths, pfx) ==
    pfx \o <<"|">> \o
    Concat([c \in 1..Len(row) |-> <<" ">> \o PadLeft(row[c], widths[c]) \o <<" ", "|">>])

\* tableWriter.write: the lines it prints, in order.  Nothing for a table
\* without rows or without columns; the second border only before the row
\* of index 1.
write(data, pfx) ==
    IF Len(data) = 0 \/ cols(data) = 0 THEN <<>>
    ELSE LET widths == writeWidths(data)
             line   == writeLine(widths, pfx)
         IN  <<line>> \o
             Concat([i \in 1..Len(data) |->
                        (IF i = 2 THEN <<line>> ELSE <<>>) \o
                        <<writeRow(data[i], widths, pfx)>>]) \o
             <<line>>

-----------------------------------------------------------------------------
(* Formatting helpers of the report *)

\* time.Unix(at, 0).Format("2 Jan 2006 3:04:05 PM"): the calendar text of
\* the epoch second at.  The calendar arithmetic is the standard library's;
\* the model keeps a text that names the second.
GoTimeFormat(at) == <<"@">> \o Itoa(at)

\* humanize.Time(time.Unix(at, 0)) of the go-humanize library: the distance
\* between at and time.Now(), in words.  The model words it in seconds.
HumanizeTime(at) ==
    IF now = at THEN <<"now">>
    ELSE IF now > at THEN Itoa(now - at) \o <<" seconds ago">>
    ELSE Itoa(at - now) \o <<" seconds from now">>

\* fmtTime
fmtTime(at) == IF at = 0 THEN <<>> ELSE GoTimeFormat(at)

\* fmtTimeAndSince
fmtTimeAndSince(at) ==
    IF at = 0 THEN <<>>
    ELSE GoTimeFormat(at) \o <<" (">> \o HumanizeTime(at) \o <<")">>

\* fmtSince
fmtSince(at) == IF at = 0 THEN <<"never">> ELSE HumanizeTime(at)

\* fmtCountAndTime
fmtCountAndTime(n, last) ==
    IF n = 0 \/ last = 0 THEN <<"never">>
    ELSE Itoa(n) \o <<", last ">> \o fmtSince(last)

\* fmtYesNo
fmtYesNo(v) == IF v THEN <<"yes">> ELSE <<"no">>

\* fmtYesBlank
fmtYesBlank(v) == IF v THEN <<"yes">> ELSE <<>>

\* fmtIntZero
fmtIntZero(i) == IF i = 0 THEN <<>> ELSE Itoa(i)

RECURSIVE TrimZeros(_)
\* A fraction's digits without its trailing zeros.
TrimZeros(ds) ==
    IF ds # <<>> /\ ds[Len(ds)] = "0" THEN TrimZeros(SubSeq(ds, 1, Len(ds) - 1)) ELSE ds

\* The k decimal digits of n, zero-filled on the left.
ZeroFilled(n, k) == LET d == Digits(n) IN Repeat("0", k - Len(d)) \o d

\* "<whole>[.<fraction>]", the fraction being frac of k digits.
WithFraction(whole, frac, k) ==
    LET f == TrimZeros(ZeroFilled(frac, k))
    IN  Digits(whole) \o (IF f = <<>> THEN <<>> ELSE <<".">> \o f)

\* time.Duration.String() of a duration of us >= 0 microseconds.
DurationString(us) ==
    IF us = 0 THEN <<"0", "s">>
    ELSE IF us < 1000 THEN Digits(us) \o <<MicroSign, "s">>
    ELSE IF us < 1000000 THEN WithFraction(us \div 1000, us % 1000, 3) \o <<"m", "s">>
    ELSE LET secs == us \div 1000000
             h == secs \div 3600
             m == (secs \div 60) % 60
             s == WithFraction(secs % 60, us % 1000000, 6) \o <<"s">>
         IN  IF h > 0 THEN Digits(h) \o <<"h">> \o Digits(m) \o <<"m">> \o s
             ELSE IF m > 0 THEN Digits(m) \o <<"m">> \o s
             ELSE s

\* strings.Replace(s, "µ", "u", -1)
ReplaceMicro(s) == [i \in 1..Len(s) |-> IF s[i] = MicroSign THEN "u" ELSE s[i]]

\* fmtMicros
fmtMicros(v) ==
    ReplaceMicro(IF v < 0 THEN <<"-">> \o DurationString(-v) ELSE DurationString(v))

\* fmtWhat
fmtWhat(ins, upd, del) ==
    LET parts == (IF ins THEN <<"inserts">> ELSE <<>>) \o
                 (IF upd THEN <<"updates">> ELSE <<>>) \o
                 (IF del THEN <<"deletes">> ELSE <<>>)
    IN  Concat([i \in 1..Len(parts) |->
                   (IF i > 1 THEN <<", ">> ELSE <<>>) \o <<parts[i]>>])

\* strings.Join(list, ", ") of a list of strings.
JoinComma(list) ==
    Concat([i \in 1..Len(list) |-> (IF i > 1 THEN <<", ">> ELSE <<>>) \o list[i]])

\* getSetting: the setting's value, "" for a key the snapshot lacks.
getSetting(r, key) == IF key \in DOMAIN r.Settings THEN r.Settings[key] ELSE <<>>

\* getSettingInt
getSettingInt(r, key) ==
    LET s == getSetting(r, key)
    IN  IF Len(s) = 0 THEN 0
        ELSE IF Atoi(s).err THEN 0 ELSE Atoi(s).val

\* getSettingBytes: the setting, followed by its humanized size when it
\* parses as a positive number.
getSettingBytes(r, key, factor) ==
    LET s == getSetting(r, key)
        p == ParseUintDec(s)
    IN  IF Len(s) = 0 THEN s
        ELSE IF p.err \/ p.val <= 0 THEN s
        ELSE s \o <<" (">> \o IBytes(ToWord(p.val * factor)) \o <<")">>

\* getBlockSize
getBlockSize(r) ==
    LET s == getSetting(r, "block_size")
    IN  IF Len(s) = 0 THEN 8192
        ELSE IF Atoi(s).err \/ Atoi(s).val = 0 THEN 8192 ELSE Atoi(s).val

\* getVersion
getVersion(r) ==
    LET p == Atoi(getSetting(r, "server_version_num"))
    IN  IF p.err THEN 0 ELSE p.val

\* getMaxWalSize with the 9.5 threshold taken as exclusive.
getMaxWalSize_exclusive(r) ==
    LET key == IF getVersion(r) > 90500 THEN "max_wal_size" ELSE "checkpoint_segments"
    IN  <<key, getSettingBytes(r, key, 16 * 1024 * 1024)>>

\* getMaxWalSize
getMaxWalSize(r) ==
    LET key == IF getVersion(r) >= 90500 THEN "max_wal_size" ELSE "checkpoint_segments"
    IN  <<key, getSettingBytes(r, key, 16 * 1024 * 1024)>>

-----------------------------------------------------------------------------
(* Section renderers.  Each is the sequence of writes the function makes  *)
(* to fd, in order: one record per Fprintf with the format it uses (sec,  *)
(* part) and the arguments it formats, one record per tableWriter.write   *)
(* with the lines it prints.                                               *)

\* A row of string literals, as the header rows are.
Literals(names) == [i \in 1..Len(names) |-> StrArg(<<names[i]>>)]

\* var tw tableWriter; tw.add(...) for each row of a list, in order; then
\* tw.write(fd, pfx): the write of one table.
TableWrite(sec, part, rows, pfx) ==
    LET RECURSIVE AddAll(_, _)
        AddAll(data, k) == IF k > Len(rows) THEN data ELSE AddAll(add(data, rows[k]), k + 1)
    IN  [sec |-> sec, part |-> part, lines |-> write(AddAll(<<>>, 1), pfx)]

\* tw.add(k, getSetting(result, k))
SettingRow(r, k) == <<StrArg(<<k>>), StrArg(getSetting(r, k))>>

\* tw.add(k, getSettingBytes(result, k, f))
SettingBytesRow(r, k, f) == <<StrArg(<<k>>), StrArg(getSettingBytes(r, k, f))>>

\* The first part of writeHumanTo: the cluster summary.
reportCluster(r) ==
    LET version    == getVersion(r)
        sincePrior == lsnDiff(r.RedoLSN, r.PriorLSN).d
        sinceRedo  == lsnDiff(r.CheckpointLSN, r.RedoLSN).d
    IN  <<[sec |-> "Cluster", part |-> "head",
           runAt |-> fmtTimeAndSince(r.Metadata.At),
           name |-> getSetting(r, "cluster_name"),
           serverVersion |-> getSetting(r, "server_version"),
           started |-> fmtTimeAndSince(r.StartTime)]>>
        \o (IF version >= 90600
              THEN <<[sec |-> "Cluster", part |-> "checkpoint",
                      systemIdentifier |-> r.SystemIdentifier,
                      timeline |-> r.TimelineID,
                      lastCheckpoint |-> fmtTimeAndSince(r.CheckpointTime)]>>
                   \o (IF r.PriorLSN # <<>> /\ r.RedoLSN # <<>> /\ r.CheckpointLSN # <<>>
                         THEN <<[sec |-> "Cluster", part |-> "lsn",
                                 prior |-> r.PriorLSN,
                                 redo |-> r.RedoLSN,
                                 sincePrior |-> IBytes(sincePrior),
                                 checkpoint |-> r.CheckpointLSN,
                                 sinceRedo |-> IBytes(sinceRedo)]>>
                       ELSE IF r.PriorLSN = <<>> /\ r.RedoLSN # <<>> /\ r.CheckpointLSN # <<>>
                         THEN <<[sec |-> "Cluster", part |-> "lsn without prior",
                                 redo |-> r.RedoLSN,
                                 checkpoint |-> r.CheckpointLSN,
                                 sinceRedo |-> IBytes(sinceRedo)]>>
                       ELSE <<>>)
                   \o <<[sec |-> "Cluster", part |-> "xids",
                         oldest |-> r.OldestXid,
                         next |-> r.NextXid - 1,
                         diff |-> r.NextXid - 1 - r.OldestXid]>>
              ELSE <<>>)
        \o (IF r.LastXactTimestamp # 0
              THEN <<[sec |-> "Cluster", part |-> "lastxact",
                      at |-> fmtTimeAndSince(r.LastXactTimestamp)]>>
              ELSE <<>>)
        \o (IF version >= 90600
              THEN <<[sec |-> "Cluster", part |-> "notify",
                      usage |-> r.NotificationQueueUsage]>>
              ELSE <<>>)
        \o <<[sec |-> "Cluster", part |-> "tail",
              backends |-> Len(r.Backends),
              max |-> getSetting(r, "max_connections"),
              recovery |-> fmtYesNo(r.IsInRecovery)]>>

\* reportSystem
reportSystem(r) ==
    LET s == r.System[1]
        v1 == getSetting(r, "autovacuum_work_mem")
        v2 == getSetting(r, "temp_file_limit")
    IN  <<[sec |-> "System", part |-> "info",
           hostname |-> s.Hostname, cores |-> s.NumCores, cpu |-> s.CPUModel,
           load |-> s.LoadAvg,
           memUsed |-> IBytes(ToWord(s.MemUsed)),
           memFree |-> IBytes(ToWord(s.MemFree)),
           memBuffers |-> IBytes(ToWord(s.MemBuffers)),
           memCached |-> IBytes(ToWord(s.MemCached)),
           swapUsed |-> IBytes(ToWord(s.SwapUsed)),
           swapFree |-> IBytes(ToWord(s.SwapFree))],
          TableWrite("System", "settings",
            << Literals(<<"Setting", "Value">>),
               SettingBytesRow(r, "shared_buffers", 8192),
               SettingBytesRow(r, "work_mem", 1024),
               SettingBytesRow(r, "maintenance_work_mem", 1024),
               SettingBytesRow(r, "temp_buffers", 8192),
               IF v1 = <<"-", "1">>
                 THEN <<StrArg(<<"autovacuum_work_mem">>), StrArg(v1)>>
                 ELSE SettingBytesRow(r, "autovacuum_work_mem", 1024),
               IF v2 = <<"-", "1">>
                 THEN <<StrArg(<<"temp_file_limit">>), StrArg(v2)>>
                 ELSE SettingBytesRow(r, "temp_file_limit", 1024),
               SettingRow(r, "max_worker_processes"),
               SettingRow(r, "autovacuum_max_workers"),
               SettingRow(r, "max_parallel_workers_per_gather"),
               SettingRow(r, "effective_io_concurrency") >>,
            <<"    ">>)>>

\* reportRecovery
reportRecovery(r) ==
    <<[sec |-> "Recovery", part |-> "status",
       paused |-> fmtYesNo(r.IsWalReplayPaused),
       received |-> r.LastWALReceiveLSN,
       replayed |-> r.LastWALReplayLSN,
       lag |-> fmtLag(r.LastWALReceiveLSN, r.LastWALReplayLSN, <<>>),
       lastReplayed |-> fmtTimeAndSince(r.LastXActReplayTimestamp)]>>

\* reportReplicationIn
reportReplicationIn(r) ==
    LET ri == r.ReplicationIncoming[1]
        df == lsnDiff(ri.ReceivedLSN, ri.ReceiveStartLSN)
        recvDiff == IF df.ok /\ IsPositive64(df.d)
                      THEN <<", ">> \o IBytes(df.d) ELSE <<>>
    IN  <<[sec |-> "ReplicationIn", part |-> "stats",
           status |-> ri.Status,
           received |-> ri.ReceivedLSN, start |-> ri.ReceiveStartLSN,
           recvDiff |-> recvDiff,
           tli |-> ri.ReceivedTLI, startTli |-> ri.ReceiveStartTLI,
           latency |-> fmtMicros(ri.Latency),
           slot |-> ri.SlotName]>>

\* reportReplicationOut
reportReplicationOut(r) ==
    <<[sec |-> "ReplicationOut", part |-> "heading"]>>
    \o [i \in 1..Len(r.ReplicationOutgoing) |->
          LET o == r.ReplicationOutgoing[i]
          IN  [sec |-> "ReplicationOut", part |-> "destination", no |-> i,
               user |-> o.RoleName, app |-> o.ApplicationName,
               addr |-> o.ClientAddr, state |-> o.State,
               started |-> fmtTimeAndSince(o.BackendStart),
               sent |-> o.SentLSN,
               written |-> o.WriteLSN,
               writeLag |-> fmtLag(o.SentLSN, o.WriteLSN, <<"write">>),
               flushed |-> o.FlushLSN,
               flushLag |-> fmtLag(o.WriteLSN, o.FlushLSN, <<"flush">>),
               replayed |-> o.ReplayLSN,
               replayLag |-> fmtLag(o.FlushLSN, o.ReplayLSN, <<"replay">>),
               syncPriority |-> IF o.SyncPriority # -1 THEN Itoa(o.SyncPriority) ELSE <<>>,
               syncState |-> o.SyncState]]
    \o <<[sec |-> "ReplicationOut", part |-> "newline"]>>

\* reportReplicationSlots
reportReplicationSlots(r, version) ==
    LET isPhy(s) == s.SlotType = <<"physical">>
        isLog(s) == s.SlotType = <<"logical">>
        phy == Cardinality({i \in 1..Len(r.ReplicationSlots) : isPhy(r.ReplicationSlots[i])})
        log == Len(r.ReplicationSlots) - phy
        temp(s) == IF version >= 100000 THEN <<StrArg(fmtYesNo(s.Temporary))>> ELSE <<>>
        tempCol == IF version >= 100000 THEN Literals(<<"Temporary">>) ELSE <<>>
        phyRow(s) == <<StrArg(s.SlotName), StrArg(fmtYesNo(s.Active)),
                       StrArg(fmtIntZero(s.Xmin)), StrArg(s.RestartLSN)>> \o temp(s)
        logRow(s) == <<StrArg(s.SlotName), StrArg(s.Plugin), StrArg(s.DBName),
                       StrArg(fmtYesNo(s.Active)), StrArg(fmtIntZero(s.Xmin)),
                       StrArg(s.RestartLSN), StrArg(s.ConfirmedFlushLSN)>> \o temp(s)
        phySlots == SelectSeq(r.ReplicationSlots, isPhy)
        logSlots == SelectSeq(r.ReplicationSlots, isLog)
    IN  (IF phy > 0
           THEN <<[sec |-> "Slots", part |-> "physical heading"],
                  TableWrite("Slots", "physical",
                    <<Literals(<<"Name", "Active", "Oldest Txn ID", "Restart LSN">>) \o tempCol>>
                    \o [i \in 1..Len(phySlots) |-> phyRow(phySlots[i])],
                    <<"    ">>)>>
           ELSE <<>>)
        \o
        (IF log > 0
           THEN <<[sec |-> "Slots", part |-> "logical heading"],
                  TableWrite("Slots", "logical",
                    <<Literals(<<"Name", "Plugin", "Database", "Active", "Oldest Txn ID",
                                 "Restart LSN", "Flushed Until">>) \o tempCol>>
                    \o [i \in 1..Len(logSlots) |-> logRow(logSlots[i])],
                    <<"    ">>)>>
           ELSE <<>>)

\* reportPublications
reportPublications(r) ==
    <<[sec |-> "Publications", part |-> "heading"]>>
    \o [i \in 1..Len(r.Publications) |->
          LET p == r.Publications[i]
          IN  [sec |-> "Publications", part |-> "publication", no |-> i,
               name |-> p.Name, allTables |-> fmtYesNo(p.AllTables),
               propagate |-> fmtWhat(p.Insert, p.Update, p.Delete),
               tables |-> p.TableCount]]
    \o <<[sec |-> "Publications", part |-> "newline"]>>

\* reportSubscriptions
reportSubscriptions(r) ==
    <<[sec |-> "Subscriptions", part |-> "heading"]>>
    \o [i \in 1..Len(r.Subscriptions) |->
          LET s == r.Subscriptions[i]
          IN  [sec |-> "Subscriptions", part |-> "subscription", no |-> i,
               name |-> s.Name, enabled |-> fmtYesNo(s.Enabled),
               pubs |-> s.PubCount, tables |-> s.TableCount,
               workers |-> s.WorkerCount, received |-> s.ReceivedLSN,
               latency |-> fmtMicros(s.Latency)]]
    \o <<[sec |-> "Subscriptions", part |-> "newline"]>>

\* 100 * q
Times100(q) == [num |-> 100 * q.num, den |-> q.den]

\* count / (secs / 60) when secs > 0, else the zero value of the variable.
PerMinute(count, secs) == IF secs > 0 THEN Quot(count * 60, secs) ELSE Quot(0, 1)

\* reportWAL
reportWAL(r) ==
    LET archiveMode == getSetting(r, "archive_mode") = <<"on">>
        secs == r.Metadata.At - r.WALArchiving.StatsReset
        maxwal == getMaxWalSize(r)
    IN  <<[sec |-> "WAL", part |-> "head", archiving |-> fmtYesNo(archiveMode)]>>
        \o (IF r.WALCount # -1
              THEN <<[sec |-> "WAL", part |-> "files", count |-> r.WALCount]>>
              ELSE <<>>)
        \o (IF archiveMode
              THEN <<[sec |-> "WAL", part |-> "archive",
                      ready |-> IF r.WALReadyCount > -1 THEN Itoa(r.WALReadyCount) ELSE <<>>,
                      rate |-> PerMinute(r.WALArchiving.ArchivedCount, secs),
                      lastArchived |-> fmtTimeAndSince(r.WALArchiving.LastArchivedTime),
                      lastFailure |-> fmtTimeAndSince(r.WALArchiving.LastFailedTime),
                      succeeded |-> r.WALArchiving.ArchivedCount,
                      failed |-> r.WALArchiving.FailedCount,
                      since |-> fmtTimeAndSince(r.WALArchiving.StatsReset)]>>
              ELSE <<>>)
        \o <<[sec |-> "WAL", part |-> "newline"],
             TableWrite("WAL", "settings",
               << Literals(<<"Setting", "Value">>),
                  SettingRow(r, "wal_level"),
                  SettingRow(r, "archive_timeout"),
                  SettingRow(r, "wal_compression"),
                  <<StrArg(<<maxwal[1]>>), StrArg(maxwal[2])>>,
                  SettingBytesRow(r, "min_wal_size", 16 * 1024 * 1024),
                  SettingRow(r, "checkpoint_timeout"),
                  SettingRow(r, "full_page_writes"),
                  SettingRow(r, "wal_keep_segments") >>,
               <<"    ">>)>>

\* reportBGWriter
reportBGWriter(r) ==
    LET bgw == r.BGWriter
        blkSize == getBlockSize(r)
        secs == r.Metadata.At - bgw.StatsReset
        ncps == bgw.CheckpointsTimed + bgw.CheckpointsRequested
        totBuffers == bgw.BuffersCheckpoint + bgw.BuffersClean + bgw.BuffersBackend
        ofNcps(x) == IF ncps > 0 THEN Quot(x, ncps) ELSE Quot(0, 1)
        ofTot(x) == IF totBuffers > 0 THEN Quot(x, totBuffers) ELSE Quot(0, 1)
        avgWrite == ofNcps(bgw.BuffersCheckpoint * blkSize)
        rateBuffers == IF secs > 0 THEN Quot(totBuffers, secs) ELSE Quot(0, 1)
    IN  <<[sec |-> "BGWriter", part |-> "stats",
           rate |-> PerMinute(ncps, secs),
           avgWrite |-> IBytes(ToWord(avgWrite.num \div avgWrite.den)),
           timed |-> bgw.CheckpointsTimed,
           pctSched |-> ofNcps(100 * bgw.CheckpointsTimed),
           requested |-> bgw.CheckpointsRequested,
           pctReq |-> ofNcps(100 * bgw.CheckpointsRequested),
           ncps |-> ncps,
           totalWrite |-> IBytes(ToWord(blkSize * totBuffers)),
           writeRate |-> IBytes(ToWord((blkSize * rateBuffers.num) \div rateBuffers.den)),
           alloc |-> bgw.BuffersAlloc,
           allocBytes |-> IBytes(ToWord(blkSize * bgw.BuffersAlloc)),
           bufCheckpoint |-> bgw.BuffersCheckpoint,
           pctBufCP |-> ofTot(100 * bgw.BuffersCheckpoint),
           bufClean |-> bgw.BuffersClean,
           pctBufBGW |-> ofTot(100 * bgw.BuffersClean),
           bufBackend |-> bgw.BuffersBackend,
           pctBufBE |-> ofTot(100 * bgw.BuffersBackend),
           maxWrittenClean |-> bgw.MaxWrittenClean,
           fsyncs |-> bgw.BuffersBackendFsync,
           since |-> fmtTimeAndSince(bgw.StatsReset)],
          TableWrite("BGWriter", "settings",
            << Literals(<<"Setting", "Value">>),
               <<StrArg(<<"bgwriter_delay">>),
                 StrArg(getSetting(r, "bgwriter_delay") \o <<" msec">>)>>,
               SettingBytesRow(r, "bgwriter_flush_after", blkSize),
               SettingRow(r, "bgwriter_lru_maxpages"),
               SettingRow(r, "bgwriter_lru_multiplier"),
               SettingRow(r, "block_size"),
               <<StrArg(<<"checkpoint_timeout">>),
                 StrArg(getSetting(r, "checkpoint_timeout") \o <<" sec">>)>>,
               SettingRow(r, "checkpoint_completion_target") >>,
            <<"    ">>)>>

\* isWaitingLock
isWaitingLock(be) ==
    IF be.WaitEventType = <<"waiting">> /\ be.WaitEvent = <<"waiting">> THEN TRUE
    ELSE be.WaitEventType = <<"Lock">>

\* isWaitingOther without the exclusion of the 'waiting' event type.
isWaitingOther_anyButLock(be) ==
    /\ GoLen(be.WaitEventType) > 0
    /\ be.WaitEventType # <<"Lock">>

\* isWaitingOther
isWaitingOther(be) ==
    /\ GoLen(be.WaitEventType) > 0
    /\ be.WaitEventType # <<"Lock">>
    /\ be.WaitEventType # <<"waiting">>

\* strings.HasPrefix(be.State, "idle in transaction"): the state strings
\* are kept as the prefix piece followed by the rest.
isIdleInXact(be) == be.State # <<>> /\ be.State[1] = "idle in transaction"

\* strings.Contains(be.State, "aborted")
containsAborted(be) == \E i \in 1..Len(be.State) : be.State[i] = " (aborted)"

\* isTooLong with the threshold itself counted as too long.
isTooLong_inclusive(be, tooLongSecs, r) ==
    be.XactStart > 0 /\ r.Metadata.At - be.XactStart >= tooLongSecs

\* The closure isTooLong of reportBackends.
isTooLong(be, tooLongSecs, r) ==
    be.XactStart > 0 /\ r.Metadata.At - be.XactStart > tooLongSecs

\* reportBackends
reportBackends(tooLongSecs, r) ==
    LET n == Len(r.Backends)
        max == getSettingInt(r, "max_connections")
        count(p(_)) == Cardinality({i \in 1..n : p(r.Backends[i])})
        tooLong(be) == isTooLong(be, tooLongSecs, r)
        waitingLocks == count(isWaitingLock)
        waitingOther == count(isWaitingOther)
        idlexact == count(isIdleInXact)
        toolong == count(tooLong)
        common(be) == <<IntArg(be.PID), StrArg(be.RoleName), StrArg(be.ApplicationName),
                        StrArg(be.ClientAddr), StrArg(be.DBName)>>
        waitRow(be) == common(be) \o
                       <<StrArg(be.WaitEventType \o <<" / ">> \o be.WaitEvent),
                         StrArg(fmtTime(be.QueryStart))>>
        longRow(be) == common(be) \o <<StrArg(fmtTimeAndSince(be.XactStart))>>
        idleRow(be) == common(be) \o
                       <<StrArg(fmtYesNo(containsAborted(be))),
                         StrArg(fmtTime(be.StateChange))>>
        rowsOf(p(_), row(_)) ==
            LET sel == SelectSeq(r.Backends, p)
            IN  [i \in 1..Len(sel) |-> row(sel[i])]
        waitHeader == Literals(<<"PID", "User", "App", "Client Addr", "Database",
                                 "Wait", "Query Start">>)
    IN  <<[sec |-> "Backends", part |-> "header",
           total |-> n, pctOfMax |-> Times100(safeDiv(n, max)), max |-> max,
           waitingLocks |-> waitingLocks, waitingOther |-> waitingOther,
           toolong |-> toolong, idlexact |-> idlexact]>>
        \o (IF waitingLocks > 0
              THEN <<[sec |-> "Backends", part |-> "locks heading"],
                     TableWrite("Backends", "locks",
                       <<waitHeader>> \o rowsOf(isWaitingLock, waitRow), <<"      ">>)>>
              ELSE <<>>)
        \o (IF waitingOther > 0
              THEN <<[sec |-> "Backends", part |-> "other heading"],
                     TableWrite("Backends", "other",
                       <<waitHeader>> \o rowsOf(isWaitingOther, waitRow), <<"      ">>)>>
              ELSE <<>>)
        \o (IF toolong > 0
              THEN <<[sec |-> "Backends", part |-> "long heading", secs |-> tooLongSecs],
                     TableWrite("Backends", "long",
                       <<Literals(<<"PID", "User", "App", "Client Addr", "Database",
                                    "Transaction Start">>)>>
                       \o rowsOf(tooLong, longRow), <<"      ">>)>>
              ELSE <<>>)
        \o (IF idlexact > 0
              THEN <<[sec |-> "Backends", part |-> "idle heading"],
                     TableWrite("Backends", "idle",
                       <<Literals(<<"PID", "User", "App", "Client Addr", "Database",
                                    "Aborted?", "State Change">>)>>
                       \o rowsOf(isIdleInXact, idleRow), <<"      ">>)>>
              ELSE <<>>)
        \o (IF waitingOther + waitingLocks + idlexact + toolong = 0
              THEN <<[sec |-> "Backends", part |-> "newline"]>>
              ELSE <<>>)

\* reportVacuumProgress
reportVacuumProgress(r) ==
    <<[sec |-> "Vacuum", part |-> "heading"]>>
    \o (IF Len(r.VacuumProgress) > 0
          THEN [i \in 1..Len(r.VacuumProgress) |->
                  LET v == r.VacuumProgress[i]
                  IN  [sec |-> "Vacuum", part |-> "process", no |-> i,
                       phase |-> v.Phase, db |-> v.DBName, table |-> v.TableName,
                       scanned |-> v.HeapBlksScanned, total |-> v.HeapBlksTotal,
                       pctComplete |-> Times100(safeDiv(v.HeapBlksScanned, v.HeapBlksTotal)),
                       vacuumed |-> v.HeapBlksVacuumed,
                       cycles |-> v.IndexVacuumCount,
                       dead |-> v.NumDeadTuples, deadMax |-> v.MaxDeadTuples]]
          ELSE <<[sec |-> "Vacuum", part |-> "none in progress"]>>)
    \o <<[sec |-> "Vacuum", part |-> "newline"],
         TableWrite("Vacuum", "settings",
           << Literals(<<"Setting", "Value">>),
              SettingBytesRow(r, "maintenance_work_mem", 1024),
              SettingRow(r, "autovacuum"),
              SettingRow(r, "autovacuum_analyze_threshold"),
              SettingRow(r, "autovacuum_vacuum_threshold"),
              SettingRow(r, "autovacuum_freeze_max_age"),
              SettingRow(r, "autovacuum_max_workers"),
              <<StrArg(<<"autovacuum_naptime">>),
                StrArg(getSetting(r, "autovacuum_naptime") \o <<" sec">>)>>,
              SettingRow(r, "vacuum_freeze_min_age"),
              SettingRow(r, "vacuum_freeze_table_age") >>,
           <<"    ">>)>>

\* reportRoles
reportRoles(r) ==
    <<[sec |-> "Roles", part |-> "heading"],
      TableWrite("Roles", "roles",
        <<Literals(<<"Name", "Login", "Repl", "Super", "Creat Rol", "Creat DB",
                     "Bypass RLS", "Inherit", "Expires", "Member Of">>)>>
        \o [i \in 1..Len(r.Roles) |->
              LET o == r.Roles[i]
              IN  <<StrArg(o.Name),
                    StrArg(fmtYesBlank(o.Rolcanlogin)),
                    StrArg(fmtYesBlank(o.Rolreplication)),
                    StrArg(fmtYesBlank(o.Rolsuper)),
                    StrArg(fmtYesBlank(o.Rolcreaterole)),
                    StrArg(fmtYesBlank(o.Rolcreatedb)),
                    StrArg(fmtYesBlank(o.Rolbypassrls)),
                    StrArg(fmtYesBlank(o.Rolinherit)),
                    StrArg(fmtTime(o.Rolvaliduntil)),
                    StrArg(JoinComma(o.MemberOf))>>],
        <<"    ">>)>>

\* An assignment to a field of the variable of "for _, t := range list",
\* made while t holds element i and leaving t with the value v: the range
\* variable is a copy of the element, so the list keeps what it had.
assignRangeVar_throughPointer(list, i, v) == [list EXCEPT ![i] = v]

assignRangeVar(list, i, v) == list

\* The loop variable t of reportTablespaces at the end of an iteration.
tablespaceShown(t) ==
    IF (t.Name = <<"pg_default">> \/ t.Name = <<"pg_global">>) /\ t.Location # <<>>
      THEN [t EXCEPT !.Location = <<"$PGDATA = ">> \o t.Location]
      ELSE t

\* reportTablespaces: what it writes.
reportTablespaces(r) ==
    LET local == r.Metadata.Local
        rowOf(t0) ==
            LET s  == IF t0.Size # -1 THEN IBytes(ToWord(t0.Size)) ELSE <<>>
                du == IF local /\ t0.DiskUsed > 0 /\ t0.DiskTotal > 0
                        THEN IBytes(ToWord(t0.DiskUsed)) \o <<" (">>
                             \o Fixed1(100 * t0.DiskUsed, t0.DiskTotal) \o <<"%) of ">>
                             \o IBytes(ToWord(t0.DiskTotal))
                        ELSE <<>>
                iu == IF local /\ t0.InodesUsed > 0 /\ t0.InodesTotal > 0
                        THEN Itoa(t0.InodesUsed) \o <<" (">>
                             \o Fixed1(100 * t0.InodesUsed, t0.InodesTotal) \o <<"%) of ">>
                             \o Itoa(t0.InodesTotal)
                        ELSE <<>>
                t  == tablespaceShown(t0)
            IN  IF local
                  THEN <<StrArg(t.Name), StrArg(t.Owner), StrArg(t.Location),
                         StrArg(s), StrArg(du), StrArg(iu)>>
                  ELSE <<StrArg(t.Name), StrArg(t.Owner), StrArg(t.Location), StrArg(s)>>
    IN  <<[sec |-> "Tablespaces", part |-> "heading"],
          TableWrite("Tablespaces", "tablespaces",
            <<IF local
                THEN Literals(<<"Name", "Owner", "Location", "Size", "Disk Used", "Inode Used">>)
                ELSE Literals(<<"Name", "Owner", "Location", "Size">>)>>
            \o [i \in 1..Len(r.Tablespaces) |-> rowOf(r.Tablespaces[i])],
            <<"    ">>)>>

\* reportTablespaces: result.Tablespaces when it returns.
reportTablespacesLeaves(r) ==
    LET RECURSIVE Loop(_, _)
        Loop(list, i) ==
            IF i > Len(list) THEN list
            ELSE Loop(assignRangeVar(list, i, tablespaceShown(list[i])), i + 1)
    IN  Loop(r.Tablespaces, 1)

\* getTablespaceName
getTablespaceName(oid, r) ==
    LET hits == {i \in 1..Len(r.Tablespaces) : r.Tablespaces[i].OID = oid}
    IN  IF hits = {} THEN <<>>
        ELSE r.Tablespaces[CHOOSE i \in hits : \A j \in hits : i <= j].Name

\* getRoleName
getRoleName(oid, r) ==
    LET hits == {i \in 1..Len(r.Roles) : r.Roles[i].OID = oid}
    IN  IF hits = {} THEN <<>>
        ELSE r.Roles[CHOOSE i \in hits : \A j \in hits : i <= j].Name

\* fmtConns
fmtConns(d) ==
    IF d.DatConnLimit < 0 THEN Itoa(d.NumBackends) \o <<" (no max limit)">>
    ELSE LET pct == safeDiv(d.NumBackends, d.DatConnLimit)
         IN  Itoa(d.NumBackends) \o <<" (">> \o Fixed1(100 * pct.num, pct.den)
             \o <<"%) of ">> \o Itoa(d.DatConnLimit)

\* stmtSQLDisplayLength
stmtSQLDisplayLength == 50

\* smap
smap(c) == IF c \in {"\r", "\n", "\t"} THEN " " ELSE c

RECURSIVE SliceBytes(_, _)
\* s[:n] of a string of one-character pieces with len(s) > n: the whole
\* characters that fit in n bytes and, when the cut falls inside a two-byte
\* character, its first byte, which is not valid UTF-8 on its own.
SliceBytes(s, n) ==
    IF n = 0 THEN <<>>
    ELSE IF PieceBytes(Head(s)) <= n
           THEN <<Head(s)>> \o SliceBytes(Tail(s), n - PieceBytes(Head(s)))
           ELSE <<"invalid byte">>

\* prepQ, on a string of one-character pieces.
prepQ(s) ==
    LET cut == IF GoLen(s) > stmtSQLDisplayLength THEN SliceBytes(s, stmtSQLDisplayLength) ELSE s
    IN  [i \in 1..Len(cut) |-> IF cut[i] = "invalid byte" THEN RuneError ELSE smap(cut[i])]

\* int64(f) of a float64 f that is not finite (x/0 for x >= 0), and
\* time.Duration(..).Truncate(time.Millisecond).String() of it.  The
\* language leaves the conversion to the implementation: the amd64
\* instruction gives the smallest int64 for both, the arm64 instruction the
\* largest int64 for +Inf and 0 for NaN.
nonFiniteDuration(num) ==
    IF arch = "amd64" THEN <<"-2562047h47m16.854s">>
    ELSE IF num > 0 THEN <<"2562047h47m16.854s">>
    ELSE <<"0", "s">>

\* prepmsec of the float64 q milliseconds (a quotient of whole numbers; a
\* zero denominator is the float division by zero).
prepmsec(q) ==
    IF q.den = 0 THEN nonFiniteDuration(q.num)
    ELSE DurationString((q.num \div q.den) * 1000)

\* filterSequencesByDB
filterSequencesByDB(r, db) == SelectSeq(r.Sequences, LAMBDA e : e.DBName = db)
\* filterUserFuncsByDB
filterUserFuncsByDB(r, db) == SelectSeq(r.UserFunctions, LAMBDA e : e.DBName = db)
\* filterExtensionsByDB
filterExtensionsByDB(r, db) == SelectSeq(r.Extensions, LAMBDA e : e.DBName = db)
\* filterTriggersByDB
filterTriggersByDB(r, db) == SelectSeq(r.DisabledTriggers, LAMBDA e : e.DBName = db)
\* filterStatementsByDB
filterStatementsByDB(r, db) == SelectSeq(r.Statements, LAMBDA e : e.DBName = db)
\* filterTablesByDB
filterTablesByDB(r, db) == SelectSeq(r.Tables, LAMBDA e : e.DBName = db)

\* filterIndexesByTable
filterIndexesByTable(r, db, schema, table) ==
    SelectSeq(r.Indexes,
              LAMBDA idx : idx.DBName = db /\ idx.SchemaName = schema /\ idx.TableName = table)

\* The body of the loop of reportDatabases for database number i.
reportDatabase(r, i) ==
    LET d    == r.Databases[i]
        sqs  == filterSequencesByDB(r, d.Name)
        ufs  == filterUserFuncsByDB(r, d.Name)
        exts == filterExtensionsByDB(r, d.Name)
        dts  == filterTriggersByDB(r, d.Name)
        ss   == filterStatementsByDB(r, d.Name)
        gap1 == Len(sqs) > 0
        gap2 == gap1 \/ Len(ufs) > 0
        gap3 == gap2 \/ Len(exts) > 0
        gap4 == gap3 \/ Len(dts) > 0
        newline(gap, k) ==
            IF gap THEN <<[sec |-> "Database", part |-> "gap", no |-> i, before |-> k]>>
            ELSE <<>>
        tup  == d.TupInserted + d.TupUpdated + d.TupDeleted
    IN  <<[sec |-> "Database", part |-> "detail", no |-> i,
           name |-> d.Name,
           owner |-> getRoleName(d.DatDBA, r),
           tablespace |-> getTablespaceName(d.DatTablespace, r),
           connections |-> fmtConns(d),
           frozenXidAge |-> d.AgeDatFrozenXid,
           commits |-> d.XactCommit,
           pctCommits |-> Times100(safeDiv(d.XactCommit, d.XactCommit + d.XactRollback)),
           rollbacks |-> d.XactRollback,
           pctRollbacks |-> Times100(safeDiv(d.XactRollback, d.XactCommit + d.XactRollback)),
           cacheHits |-> Times100(safeDiv(d.BlksHit, d.BlksHit + d.BlksRead)),
           ins |-> Times100(safeDiv(d.TupInserted, tup)),
           upd |-> Times100(safeDiv(d.TupUpdated, tup)),
           del |-> Times100(safeDiv(d.TupDeleted, tup)),
           temp |-> IBytes(ToWord(d.TempBytes)), tempFiles |-> d.TempFiles,
           deadlocks |-> d.Deadlocks, conflicts |-> d.Conflicts,
           since |-> fmtTimeAndSince(d.StatsReset)]>>
        \o (IF d.Size # -1
              THEN <<[sec |-> "Database", part |-> "size", no |-> i,
                      size |-> IBytes(ToWord(d.Size))]>>
              ELSE <<>>)
        \o <<[sec |-> "Database", part |-> "newline", no |-> i]>>
        \o (IF Len(sqs) > 0
              THEN <<[sec |-> "Database", part |-> "sequences heading", no |-> i],
                     TableWrite("Database", "sequences",
                       <<Literals(<<"Sequence", "Cache Hits">>)>>
                       \o [k \in 1..Len(sqs) |->
                             <<StrArg(sqs[k].Name),
                               StrArg(fmtPct(sqs[k].BlksHit, sqs[k].BlksHit + sqs[k].BlksRead))>>],
                       <<"      ">>)>>
              ELSE <<>>)
        \o (IF Len(ufs) > 0
              THEN newline(gap1, "functions")
                   \o <<[sec |-> "Database", part |-> "functions heading", no |-> i],
                        TableWrite("Database", "functions",
                          <<Literals(<<"Function", "Calls", "Time (self)",
                                       "Time (self+children)">>)>>
                          \o [k \in 1..Len(ufs) |->
                                <<StrArg(ufs[k].Name), IntArg(ufs[k].Calls),
                                  StrArg(DurationString(ufs[k].SelfTime * 1000)),
                                  StrArg(DurationString(ufs[k].TotalTime * 1000))>>],
                          <<"      ">>)>>
              ELSE <<>>)
        \o (IF Len(exts) > 0
              THEN newline(gap2, "extensions")
                   \o <<[sec |-> "Database", part |-> "extensions heading", no |-> i],
                        TableWrite("Database", "extensions",
                          <<Literals(<<"Name", "Version", "Comment">>)>>
                          \o [k \in 1..Len(exts) |->
                                <<StrArg(exts[k].Name), StrArg(exts[k].InstalledVersion),
                                  StrArg(exts[k].Comment)>>],
                          <<"      ">>)>>
              ELSE <<>>)
        \o (IF Len(dts) > 0
              THEN newline(gap3, "triggers")
                   \o <<[sec |-> "Database", part |-> "triggers heading", no |-> i],
                        TableWrite("Database", "triggers",
                          <<Literals(<<"Name", "Table", "Procedure">>)>>
                          \o [k \in 1..Len(dts) |->
                                <<StrArg(dts[k].Name),
                                  StrArg(dts[k].SchemaName \o <<".">> \o dts[k].TableName),
                                  StrArg(dts[k].ProcName)>>],
                          <<"      ">>)>>
              ELSE <<>>)
        \o (IF Len(ss) > 0
              THEN newline(gap4, "statements")
                   \o <<[sec |-> "Database", part |-> "statements heading", no |-> i],
                        TableWrite("Database", "statements",
                          <<Literals(<<"Calls", "Avg Time", "Total Time", "Rows/Call",
                                       "Query">>)>>
                          \o [k \in 1..Len(ss) |->
                                LET s == ss[k]
                                    rpc == IF s.Calls > 0 THEN s.Rows \div s.Calls ELSE 0
                                IN  <<IntArg(s.Calls),
                                      StrArg(prepmsec(Quot(s.TotalTime, s.Calls))),
                                      StrArg(prepmsec(Quot(s.TotalTime, 1))),
                                      IntArg(rpc),
                                      StrArg(prepQ(s.Query))>>],
                          <<"      ">>)>>
              ELSE <<>>)

\* reportDatabases
reportDatabases(r) == Concat([i \in 1..Len(r.Databases) |-> reportDatabase(r, i)])

\* tableAttrs
tableAttrs(t) ==
    JoinComma((IF t.RelPersistence = <<"u">> THEN <<<<"unlogged">>>>
               ELSE IF t.RelPersistence = <<"t">> THEN <<<<"temporary">>>>
               ELSE <<>>)
              \o (IF t.RelKind = <<"m">> THEN <<<<"materialized view">>>>
                  ELSE IF t.RelKind = <<"p">> THEN <<<<"partition parent">>>>
                  ELSE <<>>)
              \o (IF t.RelIsPartition THEN <<<<"partition">>>> ELSE <<>>))

\* The body of the inner loop of reportTables for table number i of db.
reportTable(r, db, t, i) ==
    LET nTup == t.NLiveTup + t.NDeadTup
        nTupChanged == t.NTupIns + t.NTupUpd + t.NTupDel
        attrs == tableAttrs(t)
        idxs == filterIndexesByTable(r, db, t.SchemaName, t.Name)
        idxRow(idx) ==
            LET sz == IF idx.Size # -1 THEN IBytes(ToWord(idx.Size)) ELSE <<>>
                pct == safeDiv(idx.Bloat, idx.Size)
                bloat == IF idx.Bloat # -1
                           THEN IF idx.Size # -1
                                  THEN IBytes(ToWord(idx.Bloat)) \o <<" (">>
                                       \o Fixed1(100 * pct.num, pct.den) \o <<"%)">>
                                  ELSE IBytes(ToWord(idx.Bloat))
                           ELSE <<>>
                rd == safeDiv(idx.IdxTupRead, idx.IdxScan)
                ft == safeDiv(idx.IdxTupFetch, idx.IdxScan)
            IN  <<StrArg(idx.Name), StrArg(idx.AMName), StrArg(sz), StrArg(bloat),
                  StrArg(fmtPct(idx.IdxBlksHit, idx.IdxBlksHit + idx.IdxBlksRead)),
                  IntArg(idx.IdxScan),
                  StrArg(Fixed1(rd.num, rd.den)),
                  StrArg(Fixed1(ft.num, ft.den))>>
    IN  <<[sec |-> "Table", part |-> "name", no |-> i, db |-> db,
           schema |-> t.SchemaName, name |-> t.Name]>>
        \o (IF GoLen(attrs) > 0
              THEN <<[sec |-> "Table", part |-> "attributes", attrs |-> attrs]>>
              ELSE <<>>)
        \o (IF GoLen(t.TablespaceName) > 0
              THEN <<[sec |-> "Table", part |-> "tablespace", tablespace |-> t.TablespaceName]>>
              ELSE <<>>)
        \o <<[sec |-> "Table", part |-> "detail",
              columns |-> t.RelNAtts,
              manualVacuums |-> fmtCountAndTime(t.VacuumCount, t.LastVacuum),
              manualAnalyze |-> fmtCountAndTime(t.AnalyzeCount, t.LastAnalyze),
              autoVacuums |-> fmtCountAndTime(t.AutovacuumCount, t.LastAutovacuum),
              autoAnalyze |-> fmtCountAndTime(t.AutoanalyzeCount, t.LastAutoanalyze),
              postAnalyze |-> Times100(safeDiv(t.NModSinceAnalyze, nTup)),
              live |-> Times100(safeDiv(t.NLiveTup, nTup)), total |-> nTup,
              ins |-> Times100(safeDiv(t.NTupIns, nTupChanged)),
              upd |-> Times100(safeDiv(t.NTupHotUpd, nTupChanged)),
              del |-> Times100(safeDiv(t.NTupDel, nTupChanged)),
              hot |-> Times100(safeDiv(t.NTupHotUpd, t.NTupUpd)),
              seqScans |-> t.SeqScan, seqRows |-> safeDiv(t.SeqTupRead, t.SeqScan),
              idxScans |-> t.IdxScan, idxRows |-> safeDiv(t.IdxTupFetch, t.IdxScan),
              cacheHits |-> Times100(safeDiv(t.HeapBlksHit + t.ToastBlksHit + t.TidxBlksHit,
                                             t.HeapBlksHit + t.HeapBlksRead
                                             + t.ToastBlksHit + t.ToastBlksRead
                                             + t.TidxBlksHit + t.TidxBlksRead)),
              idxCacheHits |-> Times100(safeDiv(t.IdxBlksHit, t.IdxBlksHit + t.IdxBlksRead))]>>
        \o (IF t.Size # -1
              THEN <<[sec |-> "Table", part |-> "size", size |-> IBytes(ToWord(t.Size))]>>
              ELSE <<>>)
        \o (IF t.Bloat # -1
              THEN IF t.Size # -1
                     THEN <<[sec |-> "Table", part |-> "bloat of size",
                             bloat |-> IBytes(ToWord(t.Bloat)),
                             pct |-> Times100(safeDiv(t.Bloat, t.Size))]>>
                     ELSE <<[sec |-> "Table", part |-> "bloat",
                             bloat |-> IBytes(ToWord(t.Bloat))]>>
              ELSE <<>>)
        \o <<[sec |-> "Table", part |-> "newline"]>>
        \o (IF Len(idxs) = 0 THEN <<>>
            ELSE <<TableWrite("Table", "indexes",
                     <<Literals(<<"Index", "Type", "Size", "Bloat", "Cache Hits", "Scans",
                                  "Rows Read/Scan", "Rows Fetched/Scan">>)>>
                     \o [k \in 1..Len(idxs) |-> idxRow(idxs[k])],
                     <<"    ">>)>>)

\* reportTables
reportTables(r) ==
    Concat([j \in 1..Len(r.Metadata.CollectedDBs) |->
              LET db == r.Metadata.CollectedDBs[j]
                  tables == filterTablesByDB(r, db)
              IN  Concat([i \in 1..Len(tables) |-> reportTable(r, db, tables[i], i)])])

-----------------------------------------------------------------------------
(* Snapshots: the pgmetrics.Model values handed to writeHumanTo           *)

\* The string s with one character per piece.
Chars(s) == [i \in 1..Len(s) |-> SubSeq(s, i, i)]

RECURSIVE SeqsOf(_, _)
\* The sequences of n elements of S.
SeqsOf(S, n) ==
    IF n = 0 THEN {<<>>}
    ELSE {Append(l, e) : l \in SeqsOf(S, n - 1), e \in S}

\* result.Settings for a server of the given server_version_num.
SettingsOf(versionNum) ==
    [k \in {"cluster_name", "server_version", "server_version_num", "max_connections",
            "archive_mode", "block_size", "shared_buffers", "work_mem",
            "autovacuum_work_mem", "max_wal_size", "checkpoint_segments",
            "min_wal_size", "bgwriter_delay", "checkpoint_timeout", "autovacuum"} |->
        CASE k = "cluster_name"        -> <<"main">>
          [] k = "server_version"      -> <<"10.", MultiByte>>
          [] k = "server_version_num"  -> versionNum
          [] k = "max_connections"     -> Chars("100")
          [] k = "archive_mode"        -> <<"on">>
          [] k = "block_size"          -> Chars("8192")
          [] k = "shared_buffers"      -> Chars("128")
          [] k = "work_mem"            -> Chars("4096")
          [] k = "autovacuum_work_mem" -> Chars("-1")
          [] k = "max_wal_size"        -> Chars("64")
          [] k = "checkpoint_segments" -> Chars("3")
          [] k = "min_wal_size"        -> Chars("5")
          [] k = "bgwriter_delay"      -> Chars("200")
          [] k = "checkpoint_timeout"  -> Chars("300")
          [] OTHER                     -> <<"on">>]

\* pgmetrics.Tablespace values: the two built-in ones, with and without a
\* location, and one that an administrator created.
TablespaceValues ==
    { [OID |-> 1663, Name |-> <<"pg_default">>, Owner |-> <<"postgres">>,
     Location |-> <<"/data">>, Size |-> 4096, DiskUsed |-> 50, DiskTotal |-> 200,
     InodesUsed |-> 3, InodesTotal |-> 9],
    [OID |-> 1664, Name |-> <<"pg_global">>, Owner |-> <<"postgres">>,
     Location |-> <<>>, Size |-> -1, DiskUsed |-> 0, DiskTotal |-> 0,
     InodesUsed |-> 0, InodesTotal |-> 0],
    [OID |-> 1700, Name |-> <<"fast">>, Owner |-> <<"postgres">>,
     Location |-> <<"/ssd">>, Size |-> 1024, DiskUsed |-> 1, DiskTotal |-> 3,
     InodesUsed |-> 0, InodesTotal |-> 0] }

\* A snapshot of a standby server that has every optional part: system
\* metrics, incoming and outgoing replication, one slot of each type, a
\* publication and a subscription.  Of its two backends one waits on a
\* lock and one idles in a transaction begun long before the snapshot; of
\* its two statements one has no completed call.
FullModel ==
    [Metadata |-> [At |-> 1000, Local |-> TRUE, CollectedDBs |-> << <<"app">> >>],
     StartTime |-> 100,
     SystemIdentifier |-> <<"6512">>,
     CheckpointLSN |-> Chars("0/F0"), PriorLSN |-> Chars("0/8"), RedoLSN |-> Chars("0/80"),
     TimelineID |-> 1, CheckpointTime |-> 940,
     OldestXid |-> 500, NextXid |-> 700,
     LastXactTimestamp |-> 995, NotificationQueueUsage |-> 0,
     IsInRecovery |-> TRUE, IsWalReplayPaused |-> FALSE,
     LastWALReceiveLSN |-> Chars("0/F0"), LastWALReplayLSN |-> Chars("0/80"),
     LastXActReplayTimestamp |-> 990,
     System |->
       << [Hostname |-> <<"db1">>, NumCores |-> 4, CPUModel |-> <<"cpu">>, LoadAvg |-> 1,
          MemUsed |-> 2048, MemFree |-> 1024, MemBuffers |-> 512, MemCached |-> 0,
          SwapUsed |-> 0, SwapFree |-> 4096] >>,
     ReplicationIncoming |->
       << [Status |-> <<"streaming">>, ReceivedLSN |-> Chars("0/F0"),
          ReceiveStartLSN |-> Chars("0/8"), ReceivedTLI |-> 1, ReceiveStartTLI |-> 1,
          Latency |-> 1500, SlotName |-> <<"s1">>] >>,
     ReplicationOutgoing |->
       << [RoleName |-> <<"repl">>, ApplicationName |-> <<"walreceiver">>,
          ClientAddr |-> <<"10.0.0.2">>, State |-> <<"streaming">>, BackendStart |-> 900,
          SentLSN |-> Chars("0/F0"), WriteLSN |-> Chars("0/F0"), FlushLSN |-> Chars("0/80"),
          ReplayLSN |-> Chars("0/F0"), SyncPriority |-> -1, SyncState |-> <<"async">>] >>,
     ReplicationSlots |->
       << [SlotName |-> <<"s1">>, Plugin |-> <<"pgoutput">>, SlotType |-> <<"physical">>,
          DBName |-> <<"app">>, Active |-> TRUE, Xmin |-> 0, RestartLSN |-> Chars("0/80"),
          ConfirmedFlushLSN |-> Chars("0/F0"), Temporary |-> FALSE],
          [SlotName |-> <<"s1">>, Plugin |-> <<"pgoutput">>, SlotType |-> <<"logical">>,
          DBName |-> <<"app">>, Active |-> TRUE, Xmin |-> 0, RestartLSN |-> Chars("0/80"),
          ConfirmedFlushLSN |-> Chars("0/F0"), Temporary |-> FALSE] >>,
     Publications |->
       << [Name |-> <<"pub1">>, AllTables |-> TRUE, Insert |-> TRUE, Update |-> FALSE,
          Delete |-> TRUE, TableCount |-> 2] >>,
     Subscriptions |->
       << [Name |-> <<"sub1">>, Enabled |-> TRUE, PubCount |-> 1, TableCount |-> 2,
          WorkerCount |-> 1, ReceivedLSN |-> Chars("0/F0"), Latency |-> 250] >>,
     WALArchiving |-> [ArchivedCount |-> 12, LastArchivedTime |-> 980, FailedCount |-> 0,
                       LastFailedTime |-> 0, StatsReset |-> 400],
     WALCount |-> 5, WALReadyCount |-> -1,
     BGWriter |-> [CheckpointsTimed |-> 3, CheckpointsRequested |-> 1,
                   BuffersCheckpoint |-> 10, BuffersClean |-> 4, MaxWrittenClean |-> 0,
                   BuffersBackend |-> 6, BuffersBackendFsync |-> 0, BuffersAlloc |-> 50,
                   StatsReset |-> 400],
     Backends |->
       << [PID |-> 41, RoleName |-> <<"app">>, ApplicationName |-> <<"psql">>,
        ClientAddr |-> <<"10.0.0.9">>, DBName |-> <<"app">>,
        WaitEventType |-> <<"Lock">>, WaitEvent |-> <<"relation">>,
        State |-> <<"active">>, QueryStart |-> 990, XactStart |-> 990,
        StateChange |-> 990],
       [PID |-> 42, RoleName |-> <<"app">>, ApplicationName |-> <<>>,
        ClientAddr |-> <<>>, DBName |-> <<"app">>,
        WaitEventType |-> <<>>, WaitEvent |-> <<>>,
        State |-> <<"idle in transaction", " (aborted)">>, QueryStart |-> 0,
        XactStart |-> 900, StateChange |-> 905] >>,
     VacuumProgress |->
       << [Phase |-> <<"scanning heap">>, DBName |-> <<"app">>, TableName |-> <<"t1">>,
          HeapBlksScanned |-> 5, HeapBlksTotal |-> 20, HeapBlksVacuumed |-> 0,
          IndexVacuumCount |-> 0, NumDeadTuples |-> 7, MaxDeadTuples |-> 291] >>,
     Roles |->
       << [OID |-> 10, Name |-> <<"postgres">>, Rolcanlogin |-> TRUE, Rolreplication |-> FALSE,
          Rolsuper |-> TRUE, Rolcreaterole |-> TRUE, Rolcreatedb |-> TRUE,
          Rolbypassrls |-> FALSE, Rolinherit |-> TRUE, Rolvaliduntil |-> 0,
          MemberOf |-> << <<"pg_monitor">>, <<"ops">> >>] >>,
     Tablespaces |-> << CHOOSE t \in TablespaceValues : t.OID = 1663 >>,
     Databases |->
       << [OID |-> 5, Name |-> <<"app">>, DatDBA |-> 10, DatTablespace |-> 1663,
          DatConnLimit |-> -1, AgeDatFrozenXid |-> 100, NumBackends |-> 2,
          XactCommit |-> 30, XactRollback |-> 10, BlksRead |-> 1, BlksHit |-> 9,
          TupInserted |-> 5, TupUpdated |-> 3, TupDeleted |-> 2, Conflicts |-> 0,
          TempFiles |-> 0, TempBytes |-> 0, Deadlocks |-> 0, StatsReset |-> 800,
          Size |-> 8192] >>,
     Sequences |->
       << [DBName |-> <<"app">>, Name |-> <<"seq1">>, BlksRead |-> 0, BlksHit |-> 0] >>,
     UserFunctions |->
       << [DBName |-> <<"app">>, Name |-> <<"f1">>, Calls |-> 2, TotalTime |-> 1500, SelfTime |-> 0] >>,
     Extensions |-> <<>>,
     DisabledTriggers |->
       << [DBName |-> <<"app">>, Name |-> <<"trg">>, SchemaName |-> <<"public">>,
          TableName |-> <<"t1">>, ProcName |-> <<"fn">>] >>,
     Statements |->
       << [DBName |-> <<"app">>, Query |-> Chars("select") \o <<"\n">> \o Chars("1"),
        Calls |-> 3, TotalTime |-> 10, Rows |-> 7],
       [DBName |-> <<"app">>, Query |-> Chars("vacuum"),
        Calls |-> 0, TotalTime |-> 5, Rows |-> 0] >>,
     Tables |->
       << [DBName |-> <<"app">>, SchemaName |-> <<"public">>, Name |-> <<"t1">>,
          RelPersistence |-> <<"u">>, RelKind |-> <<"r">>, RelIsPartition |-> TRUE,
          TablespaceName |-> <<>>, RelNAtts |-> 3,
          VacuumCount |-> 2, LastVacuum |-> 950, AnalyzeCount |-> 0, LastAnalyze |-> 0,
          AutovacuumCount |-> 1, LastAutovacuum |-> 0, AutoanalyzeCount |-> 1,
          LastAutoanalyze |-> 1030,
          NModSinceAnalyze |-> 1, NLiveTup |-> 8, NDeadTup |-> 2,
          NTupIns |-> 6, NTupUpd |-> 3, NTupDel |-> 1, NTupHotUpd |-> 1,
          SeqScan |-> 4, SeqTupRead |-> 10, IdxScan |-> 0, IdxTupFetch |-> 0,
          HeapBlksRead |-> 1, HeapBlksHit |-> 3, IdxBlksRead |-> 0, IdxBlksHit |-> 0,
          ToastBlksRead |-> 0, ToastBlksHit |-> 0, TidxBlksRead |-> 0, TidxBlksHit |-> 0,
          Size |-> 8192, Bloat |-> 1024] >>,
     Indexes |->
       << [DBName |-> <<"app">>, SchemaName |-> <<"public">>, TableName |-> <<"t1">>,
          Name |-> <<"t1_pkey">>, AMName |-> <<"btree">>, Size |-> 8192, Bloat |-> -1,
          IdxScan |-> 2, IdxTupRead |-> 3, IdxTupFetch |-> 3, IdxBlksRead |-> 1,
          IdxBlksHit |-> 1] >>,
     Settings |-> SettingsOf(Chars("100000"))]

\* A snapshot of a primary server with none of the optional parts.
BaseModel ==
    [FullModel EXCEPT
       !.System = <<>>, !.IsInRecovery = FALSE, !.ReplicationIncoming = <<>>,
       !.ReplicationOutgoing = <<>>, !.ReplicationSlots = <<>>,
       !.Publications = <<>>, !.Subscriptions = <<>>]

\* Snapshots that differ in what the gates of writeHumanTo read: which of
\* the optional parts the snapshot has, and a server below or at the 9.6
\* gate.
GateSnapshots ==
    { [FullModel EXCEPT
         !.Settings = SettingsOf(v),
         !.System = IF "system" \in g THEN @ ELSE <<>>,
         !.IsInRecovery = "recovery" \in g,
         !.ReplicationIncoming = IF "in" \in g THEN @ ELSE <<>>,
         !.ReplicationOutgoing = IF "out" \in g THEN @ ELSE <<>>,
         !.ReplicationSlots = IF "slots" \in g THEN @ ELSE <<>>,
         !.Publications = IF "pubs" \in g THEN @ ELSE <<>>,
         !.Subscriptions = IF "subs" \in g THEN @ ELSE <<>>] :
      v \in {Chars("90500"), Chars("90600")},
      g \in SUBSET {"system", "recovery", "in", "out", "slots", "pubs", "subs"} }

\* Snapshots that differ in the server's version (just below and at the
\* 9.5, 9.6 and 10 gates, none reported, one that is no number) and in
\* whether databases and tables were collected.
VersionSnapshots ==
    { [BaseModel EXCEPT
         !.Settings = SettingsOf(v),
         !.ReplicationSlots = <<FullModel.ReplicationSlots[1]>>,
         !.Databases = dbs,
         !.Tables = tables] :
      v \in {Chars("90499"), Chars("90500"), Chars("90599"), Chars("90600"),
             Chars("99999"), Chars("100000"), <<>>, Chars("9.6")},
      dbs \in {<<>>, FullModel.Databases},
      tables \in {<<>>, FullModel.Tables} }

\* Snapshots that differ in the checkpoint positions of the cluster summary
\* and in the positions of incoming replication: no position, well-formed
\* ones, and text that is not a position.
LsnSnapshots ==
    { [BaseModel EXCEPT
         !.PriorLSN = p, !.RedoLSN = r, !.CheckpointLSN = c,
         !.ReplicationIncoming = <<[FullModel.ReplicationIncoming[1] EXCEPT
                                      !.ReceivedLSN = c, !.ReceiveStartLSN = r]>>] :
      p, r, c \in {<<>>, Chars("0/8"), Chars("0/F0"), Chars("xyz")} }

\* The longest result.Tablespaces.
MaxTablespaces == 2

\* Snapshots that differ in their tablespaces and in whether they were
\* collected on the server itself.
TablespaceSnapshots ==
    { [BaseModel EXCEPT !.Tablespaces = ts, !.Metadata.Local = local, !.Roles = roles] :
      ts \in UNION {SeqsOf(TablespaceValues, n) : n \in 0..MaxTablespaces},
      local \in BOOLEAN,
      roles \in {<<>>, FullModel.Roles} }

\* Snapshots that differ in the counters the ratios, rates and averages
\* are computed from: every denominator zero or none (zero), the time the
\* statistics were reset (before, at and after the snapshot), a statement's
\* calls, total time and rows (st), a table's inserted, updated, deleted
\* and HOT-updated rows (ch).
CounterSnapshots ==
    { [BaseModel EXCEPT
         !.Settings["max_connections"] = IF zero THEN Chars("0") ELSE @,
         !.WALArchiving.StatsReset = reset,
         !.BGWriter = IF zero
                        THEN [f \in DOMAIN @ |-> IF f = "StatsReset" THEN reset ELSE 0]
                        ELSE [@ EXCEPT !.StatsReset = reset],
         !.VacuumProgress[1].HeapBlksTotal = IF zero THEN 0 ELSE @,
         !.Databases[1] = IF zero
                            THEN [@ EXCEPT !.DatConnLimit = 0, !.XactCommit = 0,
                                           !.XactRollback = 0, !.BlksRead = 0, !.BlksHit = 0,
                                           !.TupInserted = 0, !.TupUpdated = 0,
                                           !.TupDeleted = 0]
                            ELSE @,
         !.Statements = <<[FullModel.Statements[1] EXCEPT
                             !.Calls = st[1], !.TotalTime = st[2], !.Rows = st[3]]>>,
         !.Tables[1] = IF zero
                         THEN [@ EXCEPT !.NTupIns = ch[1], !.NTupUpd = ch[2], !.NTupDel = ch[3],
                                        !.NTupHotUpd = ch[4], !.NModSinceAnalyze = 0,
                                        !.NLiveTup = 0, !.NDeadTup = 0, !.SeqScan = 0,
                                        !.HeapBlksRead = 0, !.HeapBlksHit = 0, !.Size = 0]
                         ELSE [@ EXCEPT !.NTupIns = ch[1], !.NTupUpd = ch[2], !.NTupDel = ch[3],
                                        !.NTupHotUpd = ch[4]],
         !.Indexes[1] = IF zero
                          THEN [@ EXCEPT !.Size = 0, !.Bloat = 0, !.IdxScan = 0,
                                         !.IdxBlksRead = 0, !.IdxBlksHit = 0]
                          ELSE @] :
      zero \in BOOLEAN,
      reset \in {400, 1000, 1200},
      st \in {<<3, 10, 7>>, <<0, 5, 4>>, <<0, 0, 0>>},
      ch \in {<<6, 3, 1, 1>>, <<2, 2, 0, 2>>, <<0, 4, 0, 0>>, <<0, 0, 0, 0>>} }

\* The longest result.Backends.
MaxBackends == 2

\* Snapshots that differ in their backends: what each waits for (a lock,
\* 'waiting' of servers before 9.6, another event type, 'waiting' with
\* another event, nothing) and when its transaction began (61 and 60
\* seconds before the snapshot, never, after the snapshot, long before).
BackendSnapshots ==
    LET be(pid, type, event, xact) ==
            [FullModel.Backends[1] EXCEPT
               !.PID = pid, !.WaitEventType = type, !.WaitEvent = event,
               !.XactStart = xact]
        values == { be(41, <<"Lock">>, <<"relation">>, 939),
                    be(42, <<"waiting">>, <<"waiting">>, 940),
                    be(43, <<"IO">>, <<"DataFileRead">>, 0),
                    be(44, <<"waiting">>, <<>>, 1050),
                    be(45, <<>>, <<"waiting">>, 900) }
    IN  { [BaseModel EXCEPT !.Backends = bs] :
          bs \in UNION {SeqsOf(values, n) : n \in 0..MaxBackends} }

\* Snapshots that differ in which byte counts are unknown: the sizes (of
\* the database, the table, the index, the tablespace), the bloat figures,
\* the database's temp bytes, the system's memory figures; an unknown
\* count is -1 or another negative number.
SizeSnapshots ==
    { [BaseModel EXCEPT
         !.System = <<IF "memory" \in g
                        THEN [FullModel.System[1] EXCEPT
                                !.MemUsed = neg, !.MemFree = neg, !.MemBuffers = neg,
                                !.MemCached = neg, !.SwapUsed = neg, !.SwapFree = neg]
                        ELSE FullModel.System[1]>>,
         !.Tablespaces[1].Size = IF "size" \in g THEN neg ELSE @,
         !.Databases[1].Size = IF "size" \in g THEN neg ELSE @,
         !.Databases[1].TempBytes = IF "temp" \in g THEN neg ELSE @,
         !.Tables[1].Size = IF "size" \in g THEN neg ELSE @,
         !.Tables[1].Bloat = IF "bloat" \in g THEN neg ELSE @,
         !.Indexes[1].Size = IF "size" \in g THEN neg ELSE @,
         !.Indexes[1].Bloat = IF "bloat" \in g THEN neg ELSE 512] :
      g \in SUBSET {"memory", "size", "temp", "bloat"},
      neg \in {-1, -2} }

\* The longest result.ReplicationSlots.
MaxSlots == 2

\* Snapshots that differ in their replication slots (physical, logical,
\* and one whose type tag is neither) and in the server's version, below
\* and at the 10 gate.
SlotSnapshots ==
    LET slot(name, type) ==
            [FullModel.ReplicationSlots[1] EXCEPT !.SlotName = name, !.SlotType = type]
        values == { slot(<<"p1">>, <<"physical">>), slot(<<"l1">>, <<"logical">>),
                    slot(<<"x1">>, <<>>) }
    IN  { [BaseModel EXCEPT !.ReplicationSlots = ss, !.Settings = SettingsOf(v)] :
          ss \in UNION {SeqsOf(values, n) : n \in 1..MaxSlots},
          v \in {Chars("90600"), Chars("100000")} }

\* The snapshots writeHumanTo is given.
Snapshots ==
    GateSnapshots \cup VersionSnapshots \cup LsnSnapshots \cup TablespaceSnapshots
    \cup CounterSnapshots \cup BackendSnapshots \cup SizeSnapshots
    \cup SlotSnapshots

\* time.Now() at an invocation, in epoch seconds: the moment the snapshot
\* was taken, and later.
Nows == {1000, 1090}

\* Processors the program is built for.
Archs == {"amd64", "arm64"}

\* The most writes a failing sink accepts before its fault.
MaxSinkCap == 3

\* Invocations of writeHumanTo by one caller.
MaxRuns == 2

\* The variables of a specification that another one does not use.
RenderParked ==
    /\ result = "none" /\ before = "none" /\ pc = "off" /\ out = <<>>
    /\ now = 0 /\ sinkCap = -1 /\ sinkErr = "none" /\ lateWrites = 0
    /\ status = "none" /\ run = 0 /\ prevOut = <<>> /\ arch = "none"

TableParked == twData = <<>> /\ twLines = <<>> /\ twPfx = <<>> /\ twPc = "off"

LsnParked == lsnA = <<>> /\ lsnB = <<>> /\ lsnPc = "off" /\ lsnRes = "none"

-----------------------------------------------------------------------------
(* writeHumanTo                                                            *)

\* The options writeHumanTo reads.
o == [tooLongSec |-> 60]

\* The statements of writeHumanTo, top to bottom: the cluster summary it
\* prints itself, the calls of the section renderers, the final Fprintln.
stmts_bgwriterBeforeWAL ==
    << "cluster", "system", "recovery", "replicationIn", "replicationOut",
       "slots", "publications", "subscriptions", "bgwriter", "wal", "backends",
       "vacuum", "roles", "tablespaces", "databases", "tables", "newline" >>

stmts ==
    << "cluster", "system", "recovery", "replicationIn", "replicationOut",
       "slots", "publications", "subscriptions", "wal", "bgwriter", "backends",
       "vacuum", "roles", "tablespaces", "databases", "tables", "newline" >>

\* The statement after p; "return" after the last one.
After(p) ==
    LET i == CHOOSE k \in 1..Len(stmts) : stmts[k] = p
    IN  IF i = Len(stmts) THEN "return" ELSE stmts[i + 1]

\* fmt.Fprintf / Fprint / Fprintln for each write of ws, in order.  The
\* sink accepts them while it is healthy and none once it has failed; a
\* tableWriter.write counts as one write.  The calls' results (n, err) are
\* discarded.
Emit(ws) ==
    LET ok      == IF sinkCap = -1 \/ sinkCap >= Len(ws) THEN ws ELSE SubSeq(ws, 1, sinkCap)
        refused == Len(ws) - Len(ok)
    IN  /\ out' = out \o ok
        /\ sinkCap' = IF sinkCap = -1 THEN -1 ELSE sinkCap - Len(ok)
        /\ sinkErr' = IF refused > 0 THEN "write fault" ELSE sinkErr
        /\ lateWrites' = lateWrites +
                         (IF sinkErr # "none" THEN refused
                          ELSE IF refused > 0 THEN refused - 1 ELSE 0)

\* What a statement of writeHumanTo that only writes leaves alone.
onlyWrites == <<result, before, now, arch, status, run, prevOut, tableVars, lsnVars>>

\* report.go:31-97
WriteCluster ==
    /\ pc = "cluster"
    /\ Emit(reportCluster(result))
    /\ pc' = After("cluster")
    /\ UNCHANGED onlyWrites

\* report.go:99-101
CallReportSystem ==
    /\ pc = "system"
    /\ Emit(IF result.System # <<>> THEN reportSystem(result) ELSE <<>>)
    /\ pc' = After("system")
    /\ UNCHANGED onlyWrites

\* report.go:103-105
CallReportRecovery ==
    /\ pc = "recovery"
    /\ Emit(IF result.IsInRecovery THEN reportRecovery(result) ELSE <<>>)
    /\ pc' = After("recovery")
    /\ UNCHANGED onlyWrites

\* report.go:107-109
CallReportReplicationIn ==
    /\ pc = "replicationIn"
    /\ Emit(IF result.ReplicationIncoming # <<>> THEN reportReplicationIn(result) ELSE <<>>)
    /\ pc' = After("replicationIn")
    /\ UNCHANGED onlyWrites

\* report.go:111-113
CallReportReplicationOut ==
    /\ pc = "replicationOut"
    /\ Emit(IF Len(result.ReplicationOutgoing) > 0 THEN reportReplicationOut(result) ELSE <<>>)
    /\ pc' = After("replicationOut")
    /\ UNCHANGED onlyWrites

\* report.go:115-117
CallReportReplicationSlots ==
    /\ pc = "slots"
    /\ Emit(IF Len(result.ReplicationSlots) > 0
           THEN reportReplicationSlots(result, getVersion(result)) ELSE <<>>)
    /\ pc' = After("slots")
    /\ UNCHANGED onlyWrites

\* report.go:119-121
CallReportPublications ==
    /\ pc = "publications"
    /\ Emit(IF Len(result.Publications) > 0 THEN reportPublications(result) ELSE <<>>)
    /\ pc' = After("publications")
    /\ UNCHANGED onlyWrites

\* report.go:123-125
CallReportSubscriptions ==
    /\ pc = "subscriptions"
    /\ Emit(IF Len(result.Subscriptions) > 0 THEN reportSubscriptions(result) ELSE <<>>)
    /\ pc' = After("subscriptions")
    /\ UNCHANGED onlyWrites

\* report.go:127
CallReportWAL ==
    /\ pc = "wal"
    /\ Emit(reportWAL(result))
    /\ pc' = After("wal")
    /\ UNCHANGED onlyWrites

\* report.go:128
CallReportBGWriter ==
    /\ pc = "bgwriter"
    /\ Emit(reportBGWriter(result))
    /\ pc' = After("bgwriter")
    /\ UNCHANGED onlyWrites

\* report.go:129
CallReportBackends ==
    /\ pc = "backends"
    /\ Emit(reportBackends(o.tooLongSec, result))
    /\ pc' = After("backends")
    /\ UNCHANGED onlyWrites

\* The call of reportVacuumProgress made for every server version.
CallReportVacuumProgress_ungated ==
    /\ pc = "vacuum"
    /\ Emit(reportVacuumProgress(result))
    /\ pc' = After("vacuum")
    /\ UNCHANGED onlyWrites

\* report.go:130-132
CallReportVacuumProgress ==
    /\ pc = "vacuum"
    /\ Emit(IF getVersion(result) >= 90600 THEN reportVacuumProgress(result) ELSE <<>>)
    /\ pc' = After("vacuum")
    /\ UNCHANGED onlyWrites

\* report.go:133
CallReportRoles ==
    /\ pc = "roles"
    /\ Emit(reportRoles(result))
    /\ pc' = After("roles")
    /\ UNCHANGED onlyWrites

\* report.go:134
CallReportTablespaces ==
    /\ pc = "tablespaces"
    /\ Emit(reportTablespaces(result))
    /\ result' = [result EXCEPT !.Tablespaces = reportTablespacesLeaves(result)]
    /\ pc' = After("tablespaces")
    /\ UNCHANGED <<before, now, arch, status, run, prevOut>>
    /\ UNCHANGED <<tableVars, lsnVars>>

\* report.go:135
CallReportDatabases ==
    /\ pc = "databases"
    /\ Emit(reportDatabases(result))
    /\ pc' = After("databases")
    /\ UNCHANGED onlyWrites

\* report.go:136
CallReportTables ==
    /\ pc = "tables"
    /\ Emit(reportTables(result))
    /\ pc' = After("tables")
    /\ UNCHANGED onlyWrites

\* report.go:137
WriteNewline ==
    /\ pc = "newline"
    /\ Emit(<<[sec |-> "End", part |-> "newline"]>>)
    /\ pc' = After("newline")
    /\ UNCHANGED onlyWrites

\* The caller invokes writeHumanTo(fd, o, result) at some time of day.
Invoke ==
    /\ pc = "idle"
    /\ run < MaxRuns
    /\ \E t \in Nows : now' = t
    /\ before' = result
    /\ prevOut' = out
    /\ out' = <<>>
    /\ pc' = stmts[1]
    /\ UNCHANGED <<result, arch, sinkCap, sinkErr, lateWrites, status, run>>
    /\ UNCHANGED <<tableVars, lsnVars>>

\* writeHumanTo returns; it has no result value.
Return ==
    /\ pc = "return"
    /\ pc' = "idle"
    /\ run' = run + 1
    /\ status' = "no value"
    /\ UNCHANGED <<result, before, out, now, arch, sinkCap, sinkErr, lateWrites, prevOut>>
    /\ UNCHANGED <<tableVars, lsnVars>>

\* The state in which writeHumanTo is first invoked: a snapshot, a sink
\* that never fails or one that fails after some writes, nothing written.
Init ==
    /\ result \in Snapshots
    /\ \/ sinkCap = -1
       \/ result = BaseModel /\ sinkCap \in 0..MaxSinkCap
    /\ arch \in Archs
    /\ before = result
    /\ pc = "idle" /\ out = <<>> /\ prevOut = <<>> /\ now = 0
    /\ sinkErr = "none" /\ lateWrites = 0 /\ status = "not called" /\ run = 0
    /\ TableParked /\ LsnParked

Next ==
    \/ Invoke
    \/ WriteCluster
    \/ CallReportSystem
    \/ CallReportRecovery
    \/ CallReportReplicationIn
    \/ CallReportReplicationOut
    \/ CallReportReplicationSlots
    \/ CallReportPublications
    \/ CallReportSubscriptions
    \/ CallReportWAL
    \/ CallReportBGWriter
    \/ CallReportBackends
    \/ CallReportVacuumProgress
    \/ CallReportRoles
    \/ CallReportTablespaces
    \/ CallReportDatabases
    \/ CallReportTables
    \/ WriteNewline
    \/ Return

Spec == Init /\ [][Next]_vars

-----------------------------------------------------------------------------
(* One tableWriter instance driven through its methods *)

\* The most rows added to one table, the header included.
MaxRows == 3

\* Arguments of add(): strings (one of them not ASCII) and an int.
CellArgs == {StrArg(<<>>), StrArg(<<MultiByte>>), IntArg(12)}

\* t.add(cols...)
TwAdd ==
    /\ twPc = "open"
    /\ Len(twData) < MaxRows
    /\ \E n \in 0..2 : \E args \in SeqsOf(CellArgs, n) : twData' = add(twData, args)
    /\ UNCHANGED <<twLines, twPfx, twPc, renderVars, lsnVars>>

\* t.write(fd, pfx)
TwWrite ==
    /\ twPc = "open"
    /\ \E pfx \in {<<>>, <<"    ">>} :
          /\ twLines' = write(twData, pfx)
          /\ twPfx' = pfx
    /\ twPc' = "written"
    /\ UNCHANGED <<twData, renderVars, lsnVars>>

\* t.clear()
TwClear ==
    /\ twPc = "written"
    /\ twData' = <<>>
    /\ twLines' = <<>>
    /\ twPfx' = <<>>
    /\ twPc' = "open"
    /\ UNCHANGED <<renderVars, lsnVars>>

InitTable ==
    /\ twData = <<>> /\ twLines = <<>> /\ twPfx = <<>> /\ twPc = "open"
    /\ RenderParked /\ LsnParked

NextTable == TwAdd \/ TwWrite \/ TwClear

SpecTable == InitTable /\ [][NextTable]_vars

-----------------------------------------------------------------------------
(* lsn2int, lsnDiff and fmtLag applied to arguments of a bounded set *)

\* The longest of the strings enumerated letter by letter.
MaxLsnLen == 3

\* Arguments of lsn2int: every string of at most MaxLsnLen characters of
\* hexadecimal digits, '/' and a letter that is no digit; positions of
\* full width and at the edges of the range.
LsnInputs ==
    UNION {SeqsOf({"0", "8", "F", "/", "g"}, n) : n \in 0..MaxLsnLen}
    \cup { Chars("16/B374D848"),
           Chars("FFFFFFFF/FFFFFFFF"),
           Chars("7FFFFFFF/FFFFFFFF"),
           Chars("80000000/0"),
           Chars("0/100000000"),
           Chars("100000000/1"),
           Chars("10000000000000000/0") }

CallLsn2int ==
    /\ lsnPc = "args"
    /\ lsnRes' = lsn2int(lsnA)
    /\ lsnPc' = "lsn2int"
    /\ UNCHANGED <<lsnA, lsnB, renderVars, tableVars>>

CallLsnDiff ==
    /\ lsnPc = "args"
    /\ lsnRes' = lsnDiff(lsnA, lsnB)
    /\ lsnPc' = "lsnDiff"
    /\ UNCHANGED <<lsnA, lsnB, renderVars, tableVars>>

CallFmtLag ==
    /\ lsnPc = "args"
    /\ \E q \in {<<>>, <<"write">>} : lsnRes' = [qualArg |-> q, text |-> fmtLag(lsnA, lsnB, q)]
    /\ lsnPc' = "fmtLag"
    /\ UNCHANGED <<lsnA, lsnB, renderVars, tableVars>>

\* Arguments of prepQ, one character per piece: the empty text; a short
\* one with a carriage return, a newline and a tab; texts of 50 and of 51
\* ASCII characters; a longer one with tabs on both sides of the cut;
\* texts with a two-byte character before the cut, across it and far from
\* it; a text of 30 two-byte characters.
QueryTexts ==
    { <<>>,
      Chars("select") \o <<"\r", "\n", "\t">> \o Chars("1"),
      Repeat("a", 50),
      Repeat("a", 51),
      Repeat("a", 49) \o <<"\t", "\t">> \o Repeat("b", 9),
      Repeat("a", 48) \o <<MultiByte>> \o Repeat("b", 5),
      Repeat("a", 49) \o <<MultiByte>> \o Repeat("b", 5),
      <<MultiByte, "\n">> \o Repeat("a", 40),
      Repeat(MultiByte, 30) }

CallPrepQ ==
    /\ lsnPc = "args"
    /\ \E q \in QueryTexts : lsnRes' = [arg |-> q, text |-> prepQ(q)]
    /\ lsnPc' = "prepQ"
    /\ UNCHANGED <<lsnA, lsnB, renderVars, tableVars>>

InitLsn ==
    /\ lsnA \in LsnInputs
    /\ lsnB \in {<<>>, Chars("0/0"), Chars("0/8"), Chars("g"), Chars("FFFFFFFF/FFFFFFFF")}
    /\ lsnPc = "args" /\ lsnRes = "none"
    /\ RenderParked /\ TableParked

NextLsn == CallLsn2int \/ CallLsnDiff \/ CallFmtLag \/ CallPrepQ

SpecLsn == InitLsn /\ [][NextLsn]_vars

-----------------------------------------------------------------------------
(* Properties of writeHumanTo (Spec) *)

\* The sections of a sequence of writes, in order of first appearance of
\* each run of writes of one section.
SectionsOf(ws) ==
    LET starts == {i \in 1..Len(ws) : i = 1 \/ ws[i].sec # ws[i - 1].sec}
        RECURSIVE From(_)
        From(i) == IF i > Len(ws) THEN <<>>
                   ELSE (IF i \in starts THEN <<ws[i].sec>> ELSE <<>>) \o From(i + 1)
    IN  From(1)

\* s is an initial part of t.
IsPrefix(s, t) == Len(s) <= Len(t) /\ s = SubSeq(t, 1, Len(s))

\* The sections the claim expects for the snapshot r, in the claim's order.
C1_Expected(r) ==
    LET present(sec) ==
            CASE sec = "System"         -> r.System # <<>>
              [] sec = "Recovery"       -> r.IsInRecovery
              [] sec = "ReplicationIn"  -> r.ReplicationIncoming # <<>>
              [] sec = "ReplicationOut" -> r.ReplicationOutgoing # <<>>
              [] sec = "Slots"          -> r.ReplicationSlots # <<>>
              [] sec = "Publications"   -> r.Publications # <<>>
              [] sec = "Subscriptions"  -> r.Subscriptions # <<>>
              [] sec = "Vacuum"         -> getVersion(r) >= 90600
              [] sec = "Database"       -> r.Databases # <<>>
              [] sec = "Table"          ->
                    \E j \in 1..Len(r.Metadata.CollectedDBs) : \E k \in 1..Len(r.Tables) :
                        r.Tables[k].DBName = r.Metadata.CollectedDBs[j]
              [] OTHER                  -> TRUE
    IN  SelectSeq(<< "Cluster", "System", "Recovery", "ReplicationIn", "ReplicationOut",
                     "Slots", "Publications", "Subscriptions", "WAL", "BGWriter",
                     "Backends", "Vacuum", "Roles", "Tablespaces", "Database", "Table",
                     "End" >>,
                  present)

\* C1: the sections written so far are always an initial part of the fixed
\* sequence cluster summary, system, recovery, incoming and outgoing
\* replication, slots, publications, subscriptions, WAL, background writer,
\* backends, vacuum progress, roles, tablespaces, databases, tables, final
\* newline, restricted to the sections whose gate holds for the snapshot;
\* and when writeHumanTo reaches its end on a sink that took every write,
\* the sections written are exactly that sequence: each gated section is
\* there iff its gate holds, each ungated one is there, none twice.
C1_FixedSectionOrder ==
    (pc # "off") =>
        /\ IsPrefix(SectionsOf(out), C1_Expected(before))
        /\ (pc = "return" /\ sinkErr = "none") => SectionsOf(out) = C1_Expected(before)

\* C1 (witness): a render has reached its end for a snapshot that has some
\* of the gated sections (system, slots) and lacks others (recovery,
\* publications, vacuum progress of a 9.5 server).
C1_Witness ==
    /\ pc = "return" /\ sinkErr = "none"
    /\ before.System # <<>> /\ before.ReplicationSlots # <<>>
    /\ ~before.IsInRecovery /\ before.Publications = <<>>
    /\ getVersion(before) = 90500
    /\ SectionsOf(out) = << "Cluster", "System", "Slots", "WAL", "BGWriter", "Backends",
                            "Roles", "Tablespaces", "Database", "Table", "End" >>

\* C2: once a write to the sink has failed, no later write is attempted,
\* and when writeHumanTo has returned its caller holds that first fault as
\* the render's status.
C2_WriteFaultAbortsRender ==
    (sinkErr # "none") =>
        /\ lateWrites = 0
        /\ (pc = "idle" /\ run > 0) => status = sinkErr

\* C3: two invocations on the same snapshot with the same options, each on
\* a sink that takes every write, produce the same output, whatever
\* time.Now() was at each of them.
C3_SameSnapshotSameOutput ==
    (pc = "idle" /\ run >= 2 /\ sinkCap = -1 /\ result = before) => out = prevOut

\* C4: when writeHumanTo has returned, the snapshot equals what it was
\* when the invocation began, the Location of every tablespace included.
C4_SnapshotNeverMutated ==
    (pc = "idle" /\ run > 0) => result = before

\* C4 (witness): writeHumanTo has returned after printing the location of
\* pg_default as "$PGDATA = <location>", and the snapshot's tablespace still
\* has its own location.
C4_Witness ==
    /\ pc = "idle" /\ run > 0
    /\ \E i \in 1..Len(result.Tablespaces) :
          /\ result.Tablespaces[i].Name = <<"pg_default">>
          /\ result.Tablespaces[i].Location = <<"/data">>
    /\ \E i \in 1..Len(out) :
          /\ out[i].sec = "Tablespaces" /\ out[i].part = "tablespaces"
          /\ \E k \in 1..Len(out[i].lines) : \E c \in 1..Len(out[i].lines[k]) :
                out[i].lines[k][c] = "$PGDATA = "

-----------------------------------------------------------------------------
(* Properties of the table writer (SpecTable) *)

\* A border line starts, after the prefix, with '+'; a row line with '|'.
IsBorderLine(l, pfx) == Len(l) > Len(pfx) /\ l[Len(pfx) + 1] = "+"
IsRowLine(l, pfx) == Len(l) > Len(pfx) /\ l[Len(pfx) + 1] = "|"

\* How many pieces of l are the character c.
CountChar(l, c) == Cardinality({i \in 1..Len(l) : l[i] = c})

\* All rows of the table have the same, non-zero number of cells.
UniformTable(data) ==
    /\ data # <<>>
    /\ Len(data[1]) >= 1
    /\ \A i \in 1..Len(data) : Len(data[i]) = Len(data[1])

\* C5: a table with a header row (of at least one cell) and n >= 0 data
\* rows is written as n+4 lines: top border, header row, separator border,
\* the n data rows in insertion order, bottom border.
C5_HeaderSeparatorAlways ==
    (twPc = "written" /\ Len(twData) >= 1 /\ Len(twData[1]) >= 1) =>
        LET n == Len(twData) - 1
            w == writeWidths(twData)
        IN  /\ Len(twLines) = n + 4
            /\ IsBorderLine(twLines[1], twPfx)
            /\ twLines[2] = writeRow(twData[1], w, twPfx)
            /\ IsBorderLine(twLines[3], twPfx)
            /\ \A k \in 1..n : twLines[3 + k] = writeRow(twData[1 + k], w, twPfx)
            /\ IsBorderLine(twLines[n + 4], twPfx)

\* The width the claim gives column c: the longest cell of the column,
\* measured as the code measures a cell, with len().
C6_Width(c) ==
    LET ls == {GoLen(twData[i][c]) : i \in 1..Len(twData)}
    IN  CHOOSE w \in ls : \A x \in ls : x <= w

C6_Border ==
    twPfx \o <<"+">> \o
    Concat([c \in 1..Len(twData[1]) |-> Repeat("-", C6_Width(c) + 2) \o <<"+">>])

C6_Row(i) ==
    twPfx \o <<"|">> \o
    Concat([c \in 1..Len(twData[1]) |->
              <<" ">> \o Repeat(" ", C6_Width(c) - RuneCount(twData[i][c]))
                      \o twData[i][c] \o <<" ", "|">>])

C7_RaggedNeverMisrendered ==
    (twPc = "written" /\ twLines # <<>>) =>
        \A k \in 1..Len(twLines) :
            IsRowLine(twLines[k], twPfx) =>
                CountChar(twLines[k], "|") = CountChar(twLines[1], "+")

-----------------------------------------------------------------------------
(* Properties of the position helpers (SpecLsn) *)

\* s is <hex>/<hex> with both components of at most 32 bits.
WellFormedLsn(s) ==
    /\ IndexSlash(s) > 0
    /\ LET hi == SubSeq(s, 1, IndexSlash(s) - 1)
           lo == SubSeq(s, IndexSlash(s) + 1, Len(s))
           hex(t) == t # <<>> /\ \A i \in 1..Len(t) : HexValue(t[i]) >= 0
           fits(t) == Len(StripZeros([i \in 1..Len(t) |-> HexValue(t[i])])) <= ShiftDigits
       IN  hex(hi) /\ hex(lo) /\ fits(hi) /\ fits(lo)

\* s is empty, has no '/', or has a component that is not hexadecimal.
MalformedLsn(s) ==
    \/ s = <<>>
    \/ IndexSlash(s) = 0
    \/ LET hi == SubSeq(s, 1, IndexSlash(s) - 1)
           lo == SubSeq(s, IndexSlash(s) + 1, Len(s))
           hex(t) == t # <<>> /\ \A i \in 1..Len(t) : HexValue(t[i]) >= 0
       IN  ~hex(hi) \/ ~hex(lo)

\* The 16 digits of hi*2^32 + lo for a well-formed s.
LsnMagnitude(s) ==
    LET hi == [i \in 1..(IndexSlash(s) - 1) |-> HexValue(s[i])]
        lo == [i \in 1..(Len(s) - IndexSlash(s)) |-> HexValue(s[IndexSlash(s) + i])]
        pad(ds) == LET sig == StripZeros(ds)
                   IN  [i \in 1..(ShiftDigits - Len(sig)) |-> 0] \o sig
    IN  pad(hi) \o pad(lo)

\* C8: lsn2int yields -1 for the empty string and for every string without
\* '/' or with a non-hex component, and for <hex>/<hex> with components of
\* at most 32 bits the value hi*2^32 + lo: not -1, and not another number.
C8_Lsn2intValue ==
    (lsnPc = "lsn2int") =>
        /\ MalformedLsn(lsnA) => lsnRes = MinusOne64
        /\ WellFormedLsn(lsnA) =>
              /\ lsnRes = LsnMagnitude(lsnA)
              /\ ~IsNegative64(lsnRes)

\* C9: fmtLag(a, b) is "" when either position is unparsable, the no-lag
\* text when the distance a-b is zero, and otherwise the humanized distance
\* a-b, which is shown only for a positive distance.
C9_LagOnlyForPositiveDistance ==
    (lsnPc = "fmtLag") =>
        LET df == lsnDiff(lsnA, lsnB)
        IN  /\ ~df.ok => lsnRes.text.kind = "none"
            /\ (df.ok /\ df.d = Zero64) => lsnRes.text.kind = "nolag"
            /\ (df.ok /\ df.d # Zero64) =>
                  \/ /\ IsPositive64(df.d)
                     /\ lsnRes.text.kind = "lag"
                     /\ lsnRes.text.figure = IBytes(df.d)
                  \/ /\ IsNegative64(df.d)
                     /\ lsnRes.text.kind = "none"


-----------------------------------------------------------------------------
(* Callers of lsnDiff in the report (Spec) *)

\* C10: a distance derived by lsnDiff is written only when its validity
\* flag is true.  The cluster summary's write of the three positions
\* carries "(.. since Prior)" and "(.. since REDO)", its write of two
\* positions carries "(.. since REDO)", and the incoming-replication write
\* carries the received distance when it is not empty.
C10_DistanceOnlyWhenValid ==
    \A i \in 1..Len(out) :
        /\ (out[i].sec = "Cluster" /\ out[i].part = "lsn") =>
              /\ lsnDiff(before.RedoLSN, before.PriorLSN).ok
              /\ lsnDiff(before.CheckpointLSN, before.RedoLSN).ok
        /\ (out[i].sec = "Cluster" /\ out[i].part = "lsn without prior") =>
              lsnDiff(before.CheckpointLSN, before.RedoLSN).ok
        /\ (out[i].sec = "ReplicationIn" /\ out[i].part = "stats") =>
              (out[i].recvDiff # <<>> =>
                  lsnDiff(before.ReplicationIncoming[1].ReceivedLSN,
                          before.ReplicationIncoming[1].ReceiveStartLSN).ok)


-----------------------------------------------------------------------------
(* Reading the report back: the writes of one kind, and the cells of the   *)
(* tables among them                                                       *)

\* The writes of one kind among ws, in order.
ChunksOf(ws, sec, part) == SelectSeq(ws, LAMBDA w : w.sec = sec /\ w.part = part)

RECURSIVE Text(_)
\* The characters of a string, whatever its pieces.
Text(s) == IF s = <<>> THEN "" ELSE Head(s) \o Text(Tail(s))

\* The cells of a row line that tableWriter.write printed: what stands
\* between two bars, without the spaces that pad and frame it.
Cells(line) ==
    LET bars == SelectSeq([i \in 1..Len(line) |-> i], LAMBDA i : line[i] = "|")
        RECURSIVE Unpad(_)
        Unpad(s) == IF s # <<>> /\ Head(s) = " " THEN Unpad(Tail(s)) ELSE s
    IN  [k \in 1..(Len(bars) - 1) |->
            Text(Unpad(SubSeq(line, bars[k] + 1, bars[k + 1] - 2)))]

\* The header cells of a printed table.
HeaderOf(lines) == Cells(lines[2])

\* The data rows of a printed table (border, header, border, rows, border),
\* each as its cells.
DataRows(lines) ==
    IF Len(lines) < 5 THEN <<>>
    ELSE [k \in 1..(Len(lines) - 4) |-> Cells(lines[k + 3])]

-----------------------------------------------------------------------------
(* Ratios, rates and averages (Spec) *)

\* C11: no ratio, percentage, rate or average of the report is evaluated
\* with a zero denominator.  Every quotient written by the WAL, background
\* writer, backends, vacuum progress, database and table sections has a
\* non-zero denominator (safeDiv or a guard chose the fallback 0 when the
\* counters gave none), and in every slow-query table the 'Avg Time' of a
\* statement is its total time over its calls, the fallback 0 for a
\* statement with zero calls, and 'Rows/Call' its rows over its calls, 0
\* for zero calls.
C11_NoZeroDenominator ==
    (pc # "off") =>
    /\ \A i \in 1..Len(out) :
         LET w == out[i]
             quotients ==
                CASE w.sec = "WAL" /\ w.part = "archive" -> {w.rate}
                  [] w.sec = "BGWriter" /\ w.part = "stats" ->
                        {w.rate, w.pctSched, w.pctReq, w.pctBufCP, w.pctBufBGW, w.pctBufBE}
                  [] w.sec = "Backends" /\ w.part = "header" -> {w.pctOfMax}
                  [] w.sec = "Vacuum" /\ w.part = "process" -> {w.pctComplete}
                  [] w.sec = "Database" /\ w.part = "detail" ->
                        {w.pctCommits, w.pctRollbacks, w.cacheHits, w.ins, w.upd, w.del}
                  [] w.sec = "Table" /\ w.part = "detail" ->
                        {w.postAnalyze, w.live, w.ins, w.upd, w.del, w.hot, w.seqRows,
                         w.idxRows, w.cacheHits, w.idxCacheHits}
                  [] w.sec = "Table" /\ w.part = "bloat of size" -> {w.pct}
                  [] OTHER -> {}
         IN  \A q \in quotients : q.den # 0
    /\ LET shown == ChunksOf(out, "Database", "statements")
           dbs   == SelectSeq(before.Databases,
                              LAMBDA d : filterStatementsByDB(before, d.Name) # <<>>)
       IN  \A j \in 1..Len(shown) :
              LET rows == DataRows(shown[j].lines)
                  ss   == filterStatementsByDB(before, dbs[j].Name)
              IN  /\ Len(rows) = Len(ss)
                  /\ \A k \in 1..Len(ss) :
                        /\ rows[k][2] = Text(prepmsec(safeDiv(ss[k].TotalTime, ss[k].Calls)))
                        /\ rows[k][4] = Text(Itoa(IF ss[k].Calls = 0 THEN 0
                                                  ELSE ss[k].Rows \div ss[k].Calls))

-----------------------------------------------------------------------------
(* Version gates (Spec) *)

\* The server version the claims speak of: the number server_version_num
\* spells, 0 when the setting is absent or is no number.
VersionOf(r) ==
    LET s == IF "server_version_num" \in DOMAIN r.Settings
               THEN r.Settings["server_version_num"] ELSE <<>>
    IN  IF AllDecimal(s) THEN DecNumber(s) ELSE 0

\* The writes of the cluster summary that carry the fields gated at 9.6.
GatedParts == {"checkpoint", "lsn", "lsn without prior", "xids", "notify"}

\* The slot tables among the writes.
SlotTables(ws) == ChunksOf(ws, "Slots", "physical") \o ChunksOf(ws, "Slots", "logical")

\* Below the gates nothing gated is written: under 9.6 none of System
\* Identifier, Timeline, Last Checkpoint, the LSN lines, Transaction IDs,
\* Notification Queue, nor the Vacuum Progress section; under 10 no slot
\* table has a 'Temporary' header cell or a row longer than 4 (physical) or
\* 7 (logical) cells.
NothingBelowGate ==
    /\ VersionOf(before) < 90600 =>
          \A i \in 1..Len(out) :
              /\ out[i].sec = "Cluster" => out[i].part \notin GatedParts
              /\ out[i].sec # "Vacuum"
    /\ VersionOf(before) < 100000 =>
          \A i \in 1..Len(out) :
              out[i].sec = "Slots" /\ out[i].part \in {"physical", "logical"} =>
                 LET width == IF out[i].part = "physical" THEN 4 ELSE 7
                 IN  \A k \in 1..Len(out[i].lines) :
                        LET cells == Cells(out[i].lines[k])
                        IN  /\ Len(cells) <= width
                            /\ \A c \in 1..Len(cells) : cells[c] # "Temporary"

\* At or above the gates, of a finished report: from 9.6 on the fields
\* that do not depend on a position, and the Vacuum Progress section; from
\* 10 on the 'Temporary' column in the header and in every row of each slot
\* table written.
PresentFromGate ==
    /\ VersionOf(before) >= 90600 =>
          /\ \A p \in {"checkpoint", "xids", "notify"} : Len(ChunksOf(out, "Cluster", p)) = 1
          /\ \E i \in 1..Len(out) : out[i].sec = "Vacuum"
    /\ VersionOf(before) >= 100000 =>
          \A i \in 1..Len(out) :
              out[i].sec = "Slots" /\ out[i].part \in {"physical", "logical"} =>
                 LET width == IF out[i].part = "physical" THEN 5 ELSE 8
                     rows  == DataRows(out[i].lines)
                 IN  /\ HeaderOf(out[i].lines)[width] = "Temporary"
                     /\ \A k \in 1..Len(rows) :
                           Len(rows[k]) = width /\ rows[k][width] \in {"yes", "no"}

\* C12 as stated: version-gated output is never written below its gate
\* (below 9.6, which an absent or unparsable version counts as; below 10
\* for the slots' 'Temporary' column), and at or above each gate the
\* corresponding output is present, the Prior, REDO and Checkpoint LSN
\* included.
C12_GatedOutputIffAtGate ==
    (pc # "off") =>
    /\ NothingBelowGate
    /\ (pc = "return" /\ sinkErr = "none") =>
          /\ PresentFromGate
          /\ VersionOf(before) >= 90600 => Len(ChunksOf(out, "Cluster", "lsn")) = 1

\* C12 as amended: as stated, except that from 9.6 on the REDO and
\* Checkpoint LSN are present exactly when the snapshot has both
\* positions, with the Prior LSN exactly when it has that one as well.
C12_GatedOutputIffAtGateAndKnown ==
    (pc # "off") =>
    /\ NothingBelowGate
    /\ (pc = "return" /\ sinkErr = "none") =>
          /\ PresentFromGate
          /\ VersionOf(before) >= 90600 =>
                LET both == before.RedoLSN # <<>> /\ before.CheckpointLSN # <<>>
                IN  /\ Len(ChunksOf(out, "Cluster", "lsn")) =
                          (IF both /\ before.PriorLSN # <<>> THEN 1 ELSE 0)
                    /\ Len(ChunksOf(out, "Cluster", "lsn without prior")) =
                          (IF both /\ before.PriorLSN = <<>> THEN 1 ELSE 0)

\* C12 (witness): a report is finished for a server whose version is no
\* number, with a slot table written: it shows none of the gated fields
\* and its slot table has four columns.
C12_Witness ==
    /\ pc = "return" /\ sinkErr = "none"
    /\ before.Settings["server_version_num"] = Chars("9.6")
    /\ Len(SlotTables(out)) = 1
    /\ HeaderOf(SlotTables(out)[1].lines) = <<"Name", "Active", "Oldest Txn ID", "Restart LSN">>
    /\ Len(DataRows(SlotTables(out)[1].lines)) = 1

\* C13: getMaxWalSize selects the key 'max_wal_size' for every version
\* >= 90500 and 'checkpoint_segments' for every version below, version 0
\* of a missing or non-numeric server_version_num included; and the WAL
\* settings table, once written, has that key in its fourth row and the
\* other key in none.
C13_MaxWalSizeKey ==
    (pc # "off") =>
        LET key   == IF VersionOf(before) >= 90500 THEN "max_wal_size"
                     ELSE "checkpoint_segments"
            other == IF VersionOf(before) >= 90500 THEN "checkpoint_segments"
                     ELSE "max_wal_size"
            shown == ChunksOf(out, "WAL", "settings")
        IN  /\ getMaxWalSize(before)[1] = key
            /\ \A j \in 1..Len(shown) :
                  LET rows == DataRows(shown[j].lines)
                  IN  /\ Len(rows) = 8
                      /\ rows[4][1] = key
                      /\ \A k \in 1..Len(rows) : rows[k][1] # other

\* C13 (witness): the WAL settings table is written for a server of
\* version exactly 90500 and shows max_wal_size with its value.
C13_Witness ==
    /\ pc = "return"
    /\ VersionOf(before) = 90500
    /\ Len(ChunksOf(out, "WAL", "settings")) = 1
    /\ DataRows(ChunksOf(out, "WAL", "settings")[1].lines)[4] = <<"max_wal_size", "64 (1.0 GiB)">>

-----------------------------------------------------------------------------
(* Backends (Spec) *)

\* The data rows of the table of one kind that the Backends section wrote,
\* none when it wrote no such table.
BackendRows(part) ==
    LET shown == ChunksOf(out, "Backends", part)
    IN  IF shown = <<>> THEN <<>> ELSE DataRows(shown[1].lines)

\* The PIDs of a list of backends, as a table shows them.
PidsOf(bes) == [k \in 1..Len(bes) |-> Text(Itoa(bes[k].PID))]

\* C14: a backend is counted as lock-waiting iff its wait-event-type is
\* 'Lock' or both its wait-event-type and wait-event are 'waiting', and as
\* other-waiting iff its wait-event-type is non-empty and neither 'Lock'
\* nor 'waiting'; none is in both classes; the two counts of the Backends
\* header are the sizes of the classes and the numbers of rows of the
\* 'waiting on locks' and 'waiting on other' tables, whose rows are the
\* backends of the class.
C14_WaitClasses ==
    LET lock(be)  == \/ be.WaitEventType = <<"Lock">>
                     \/ be.WaitEventType = <<"waiting">> /\ be.WaitEvent = <<"waiting">>
        other(be) == /\ be.WaitEventType # <<>>
                     /\ be.WaitEventType \notin {<<"Lock">>, <<"waiting">>}
        locks     == SelectSeq(before.Backends, lock)
        others    == SelectSeq(before.Backends, other)
        header    == ChunksOf(out, "Backends", "header")
    IN  (pc # "off") =>
        /\ \A k \in 1..Len(before.Backends) :
              LET be == before.Backends[k]
              IN  /\ isWaitingLock(be) <=> lock(be)
                  /\ isWaitingOther(be) <=> other(be)
                  /\ ~(isWaitingLock(be) /\ isWaitingOther(be))
        /\ (header # <<>> /\ sinkErr = "none" /\ pc \notin {"backends"}) =>
              /\ header[1].waitingLocks = Len(locks)
              /\ header[1].waitingOther = Len(others)
              /\ Len(BackendRows("locks")) = header[1].waitingLocks
              /\ Len(BackendRows("other")) = header[1].waitingOther
              /\ [k \in 1..Len(locks) |-> BackendRows("locks")[k][1]] = PidsOf(locks)
              /\ [k \in 1..Len(others) |-> BackendRows("other")[k][1]] = PidsOf(others)

\* C14 (witness): the Backends section is written for a backend that waits
\* the way servers before 9.6 report it and one that waits on I/O: one is
\* counted and listed in each class.
C14_Witness ==
    /\ pc = "vacuum" /\ sinkErr = "none"
    /\ Len(before.Backends) = 2
    /\ before.Backends[1].WaitEventType = <<"waiting">>
    /\ before.Backends[1].WaitEvent = <<"waiting">>
    /\ before.Backends[2].WaitEventType = <<"IO">>
    /\ ChunksOf(out, "Backends", "header")[1].waitingLocks = 1
    /\ ChunksOf(out, "Backends", "header")[1].waitingOther = 1
    /\ BackendRows("locks")[1][6] = "waiting / waiting"
    /\ BackendRows("other")[1][6] = "IO / DataFileRead"

\* C17: a backend is reported as a long-running transaction iff its
\* transaction start time is non-zero and snapshot time minus transaction
\* start is strictly greater than the configured threshold.  The 'xact too
\* long' count of the Backends header is the number of such backends; the
\* 'Long Running Transactions' heading and table are written iff that
\* count is positive, the table with one row per qualifying backend, in
\* snapshot order, showing its PID and its transaction start.
C17_LongRunning ==
    LET long(be) == /\ be.XactStart # 0
                    /\ before.Metadata.At - be.XactStart > o.tooLongSec
        longs    == SelectSeq(before.Backends, long)
        header   == ChunksOf(out, "Backends", "header")
        rows     == BackendRows("long")
    IN  (pc # "off" /\ header # <<>> /\ sinkErr = "none") =>
        /\ header[1].toolong = Len(longs)
        /\ Len(ChunksOf(out, "Backends", "long heading")) = (IF Len(longs) > 0 THEN 1 ELSE 0)
        /\ Len(ChunksOf(out, "Backends", "long")) = (IF Len(longs) > 0 THEN 1 ELSE 0)
        /\ Len(rows) = Len(longs)
        /\ \A k \in 1..Len(longs) :
              /\ rows[k][1] = Text(Itoa(longs[k].PID))
              /\ rows[k][6] = Text(fmtTimeAndSince(longs[k].XactStart))

\* C17 (witness): the Backends section is written for a backend whose
\* transaction began 60 seconds before the snapshot, exactly the
\* threshold, followed by one whose transaction began 61 seconds before:
\* only the second is counted and listed.
C17_Witness ==
    /\ pc = "vacuum" /\ sinkErr = "none"
    /\ Len(before.Backends) = 2
    /\ before.Metadata.At - before.Backends[1].XactStart = o.tooLongSec
    /\ before.Metadata.At - before.Backends[2].XactStart = o.tooLongSec + 1
    /\ ChunksOf(out, "Backends", "header")[1].toolong = 1
    /\ Len(BackendRows("long")) = 1
    /\ BackendRows("long")[1][1] = Text(Itoa(before.Backends[2].PID))

-----------------------------------------------------------------------------
(* Unknown byte counts (Spec) *)

\* The tables the per-table section renders, in its order.
RenderedTables(r) ==
    Concat([j \in 1..Len(r.Metadata.CollectedDBs) |->
               filterTablesByDB(r, r.Metadata.CollectedDBs[j])])

\* C15: for every byte count of the snapshot that is negative, the
\* finished report shows no byte figure: none of the system's memory and
\* swap figures, no 'Temp Files' figure and no 'Size' line of a database,
\* no 'Size' and no 'Bloat' line of a table, an empty 'Size' and 'Bloat'
\* cell of an index, an empty 'Size' cell of a tablespace.
C15_NoFigureForNegative ==
    (pc = "return" /\ sinkErr = "none") =>
    LET r == before
        known(n) == n >= 0
        count(list, p(_)) == Len(SelectSeq(list, p))
        tabs == RenderedTables(r)
        withIdx == SelectSeq(tabs, LAMBDA t :
                       filterIndexesByTable(r, t.DBName, t.SchemaName, t.Name) # <<>>)
        idxShown == ChunksOf(out, "Table", "indexes")
        tsShown == ChunksOf(out, "Tablespaces", "tablespaces")
    IN  /\ \A i \in 1..Len(out) :
             /\ (out[i].sec = "System" /\ out[i].part = "info") =>
                   LET s == r.System[1]
                   IN  /\ ~known(s.MemUsed) => out[i].memUsed = <<>>
                       /\ ~known(s.MemFree) => out[i].memFree = <<>>
                       /\ ~known(s.MemBuffers) => out[i].memBuffers = <<>>
                       /\ ~known(s.MemCached) => out[i].memCached = <<>>
                       /\ ~known(s.SwapUsed) => out[i].swapUsed = <<>>
                       /\ ~known(s.SwapFree) => out[i].swapFree = <<>>
             /\ (out[i].sec = "Database" /\ out[i].part = "detail") =>
                   (~known(r.Databases[out[i].no].TempBytes) => out[i].temp = <<>>)
             /\ (out[i].sec = "Database" /\ out[i].part = "size") =>
                   known(r.Databases[out[i].no].Size)
        /\ Len(ChunksOf(out, "Table", "size")) = count(tabs, LAMBDA t : known(t.Size))
        /\ Len(ChunksOf(out, "Table", "bloat of size") \o ChunksOf(out, "Table", "bloat"))
              = count(tabs, LAMBDA t : known(t.Bloat))
        /\ Len(idxShown) = Len(withIdx)
        /\ \A j \in 1..Len(withIdx) :
              LET t    == withIdx[j]
                  idxs == filterIndexesByTable(r, t.DBName, t.SchemaName, t.Name)
                  rows == DataRows(idxShown[j].lines)
              IN  /\ Len(rows) = Len(idxs)
                  /\ \A k \in 1..Len(idxs) :
                        /\ ~known(idxs[k].Size) => rows[k][3] = ""
                        /\ ~known(idxs[k].Bloat) => rows[k][4] = ""
        /\ \A j \in 1..Len(tsShown) :
              LET rows == DataRows(tsShown[j].lines)
              IN  /\ Len(rows) = Len(r.Tablespaces)
                  /\ \A k \in 1..Len(rows) :
                        ~known(r.Tablespaces[k].Size) => rows[k][4] = ""

-----------------------------------------------------------------------------
(* Replication slots (Spec) *)

\* The data rows of the slot table of one kind, none when the section
\* wrote no such table.
SlotRows(part) ==
    LET shown == ChunksOf(out, "Slots", part)
    IN  IF shown = <<>> THEN <<>> ELSE DataRows(shown[1].lines)

\* C16: once the slots section is written, every slot of the snapshot is a
\* data row of exactly one of the 'Physical Replication Slots' and 'Logical
\* Replication Slots' tables (the two tables together have one row per
\* slot, and each slot's name is in the first cell of a row), and a slot
\* table, heading and table, is written only with at least one data row;
\* also for a slot whose type tag is neither 'physical' nor 'logical'.
C16_SlotPartition ==
    LET slots == before.ReplicationSlots
        rows  == SlotRows("physical") \o SlotRows("logical")
        past  == pc = "return" \/ \E k \in 1..Len(stmts) : stmts[k] = pc /\ k > 6
    IN  (past /\ sinkErr = "none") =>
        /\ Len(rows) = Len(slots)
        /\ \A i \in 1..Len(slots) :
              \E k \in 1..Len(rows) : rows[k][1] = Text(slots[i].SlotName)
        /\ \A part \in {"physical", "logical"} :
              /\ Len(ChunksOf(out, "Slots", part)) > 0 => Len(SlotRows(part)) > 0
              /\ Len(ChunksOf(out, "Slots", part)) =
                    Len(ChunksOf(out, "Slots", IF part = "physical" THEN "physical heading"
                                               ELSE "logical heading"))

-----------------------------------------------------------------------------
(* Query text (SpecLsn) *)

\* C18: for every query text, prepQ returns a string of at most 50
\* characters, without carriage return, newline or tab, that is the first
\* 50 characters of the text (all of them when it has fewer) with each
\* carriage return, newline and tab replaced by a space.
C18_PrepQ ==
    (lsnPc = "prepQ") =>
        LET q == lsnRes.arg
            t == lsnRes.text
            n == IF Len(q) > 50 THEN 50 ELSE Len(q)
        IN  /\ RuneCount(t) <= 50
            /\ \A i \in 1..Len(t) : t[i] \notin {"\r", "\n", "\t"}
            /\ t = [i \in 1..n |-> IF q[i] \in {"\r", "\n", "\t"} THEN " " ELSE q[i]]

-----------------------------------------------------------------------------
(* Rows changed, per table (Spec) *)

\* C19: in the per-table section the three 'Rows Changed' percentages of
\* a table are its inserted, updated and deleted row counts, each over
\* their sum, times 100: they add up to 100 when the sum is not zero and
\* are all 0 when it is.
C19_RowsChangedMix ==
    LET tabs    == RenderedTables(before)
        details == ChunksOf(out, "Table", "detail")
        pctOf(q, a, b) == IF b = 0 THEN q.num = 0 ELSE q.num * b = 100 * a * q.den
    IN  (pc = "newline" /\ sinkErr = "none") =>
        /\ Len(details) = Len(tabs)
        /\ \A j \in 1..Len(tabs) :
              LET t   == tabs[j]
                  w   == details[j]
                  sum == t.NTupIns + t.NTupUpd + t.NTupDel
              IN  /\ pctOf(w.ins, t.NTupIns, sum)
                  /\ pctOf(w.upd, t.NTupUpd, sum)
                  /\ pctOf(w.del, t.NTupDel, sum)
                  /\ sum # 0 =>
                        w.ins.num * w.upd.den * w.del.den
                        + w.upd.num * w.ins.den * w.del.den
                        + w.del.num * w.ins.den * w.upd.den
                        = 100 * w.ins.den * w.upd.den * w.del.den
=============================================================================
